---- MODULE Spec2Model ----
(***************************************************************************)
(* Batch orchestration and document-continuity engine of qwen-ocr:         *)
(* DocumentJob.run / OCRApp._process_pdf, the two retrying model calls of  *)
(* a batch, and the header stack that carries context between batches.     *)
(***************************************************************************)
EXTENDS Integers, Sequences, FiniteSets, TLC

(***************************************************************************)
(* Bounds of the model.                                                    *)
(***************************************************************************)
MaxLevel == 3
MaxHeaders == 2
MaxPages == 3
MaxBatchSize == 2
MaxStartPage == 3
MaxEndPage == 25
MaxSpan == 10
MaxElements == 2
MaxExtracted == 1
MaxLines == 2
MaxHashes == 7
MaxPdfPages == 7
MaxCrumbBatches == 7
MaxTextLines == 3

(***************************************************************************)
(* Strings are sequences of one-character strings.                         *)
(***************************************************************************)
Whitespace == {" ", "\t", "\n", "\r"}

RECURSIVE LStrip(_, _)
LStrip(s, chars) ==
  IF s # <<>> /\ Head(s) \in chars THEN LStrip(Tail(s), chars) ELSE s

RECURSIVE RStrip(_, _)
RStrip(s, chars) ==
  IF s # <<>> /\ s[Len(s)] \in chars
  THEN RStrip(SubSeq(s, 1, Len(s) - 1), chars)
  ELSE s

Strip(s) == RStrip(LStrip(s, Whitespace), Whitespace)

\* str.split("\n"): always at least one line
RECURSIVE SplitLines(_)
SplitLines(s) ==
  IF \A i \in 1..Len(s) : s[i] # "\n"
  THEN <<s>>
  ELSE LET i == CHOOSE j \in 1..Len(s) :
                  s[j] = "\n" /\ \A k \in 1..(j - 1) : s[k] # "\n"
       IN  <<SubSeq(s, 1, i - 1)>> \o SplitLines(SubSeq(s, i + 1, Len(s)))

\* sep.join(parts)
RECURSIVE JoinWith(_, _)
JoinWith(sep, parts) ==
  IF parts = <<>> THEN <<>>
  ELSE IF Len(parts) = 1 THEN parts[1]
  ELSE parts[1] \o sep \o JoinWith(sep, Tail(parts))

\* s * n
RECURSIVE Repeat(_, _)
Repeat(s, n) == IF n <= 0 THEN <<>> ELSE s \o Repeat(s, n - 1)

(***************************************************************************)
(* Header stack (processing.py).  A header is a pair <<level, line>>.      *)
(***************************************************************************)
HeaderTexts == {"A", "B"}

\* a heading line "#" * level + " " + text
HeaderLine(level, text) == Repeat(<<"#">>, level) \o <<" ", text>>

Headers == {<<l, HeaderLine(l, t)>> : l \in 1..MaxLevel, t \in HeaderTexts}

RECURSIVE SeqsUpTo(_, _)
SeqsUpTo(S, n) ==
  IF n = 0 THEN {<<>>}
  ELSE LET shorter == SeqsUpTo(S, n - 1)
       IN  shorter \cup {Append(s, x) : s \in shorter, x \in S}

HeaderSeqs == SeqsUpTo(Headers, MaxHeaders)

\* the inner loop popping only the entries strictly deeper than `level`
RECURSIVE PopWhile_Strict(_, _)
PopWhile_Strict(new_stack, level) ==
  IF Len(new_stack) > 0 /\ new_stack[Len(new_stack)][1] > level
  THEN PopWhile_Strict(SubSeq(new_stack, 1, Len(new_stack) - 1), level)
  ELSE new_stack

\* the inner loop `while new_stack and new_stack[-1][0] >= level: pop()`
RECURSIVE PopWhile(_, _)
PopWhile(new_stack, level) ==
  IF Len(new_stack) > 0 /\ new_stack[Len(new_stack)][1] >= level
  THEN PopWhile(SubSeq(new_stack, 1, Len(new_stack) - 1), level)
  ELSE new_stack

\* one iteration of the loop that pushes a header of the top's level
ApplyHeader_PushEqual(new_stack, h) ==
  IF Len(new_stack) = 0
  THEN Append(new_stack, h)
  ELSE LET last_level == new_stack[Len(new_stack)][1]
       IN  IF h[1] >= last_level
           THEN Append(new_stack, h)
           ELSE Append(PopWhile(new_stack, h[1]), h)

\* one iteration of the loop that keeps the top entry when a header of its
\* level arrives
ApplyHeader_KeepEqual(new_stack, h) ==
  IF Len(new_stack) = 0
  THEN Append(new_stack, h)
  ELSE LET last_level == new_stack[Len(new_stack)][1]
       IN  IF h[1] > last_level
           THEN Append(new_stack, h)
           ELSE IF h[1] = last_level
                THEN new_stack
                ELSE Append(PopWhile(new_stack, h[1]), h)

\* one iteration of the `for level, header_text in new_headers` loop
ApplyHeader(new_stack, h) ==
  IF Len(new_stack) = 0
  THEN Append(new_stack, h)
  ELSE LET last_level == new_stack[Len(new_stack)][1]
       IN  IF h[1] > last_level
           THEN Append(new_stack, h)
           ELSE IF h[1] = last_level
                THEN [new_stack EXCEPT ![Len(new_stack)] = h]
                ELSE Append(PopWhile(new_stack, h[1]), h)

RECURSIVE update_header_stack(_, _)
update_header_stack(old_stack, new_headers) ==
  IF new_headers = <<>>
  THEN old_stack
  ELSE update_header_stack(ApplyHeader(old_stack, Head(new_headers)),
                           Tail(new_headers))

\* a call that works on old_stack itself: the caller's list is the result
CallUpdateHeaderStack_InPlace(old_stack, new_headers) ==
  [returned |-> update_header_stack(old_stack, new_headers),
   old_stack |-> update_header_stack(old_stack, new_headers)]

\* a call that starts from an empty stack whenever the batch has headers
CallUpdateHeaderStack_BatchOnly(old_stack, new_headers) ==
  [returned |-> IF new_headers = <<>> THEN old_stack
                ELSE update_header_stack(<<>>, new_headers),
   old_stack |-> old_stack]

\* a call of update_header_stack: the list it returns, and the caller's list
\* after it; `new_stack = old_stack.copy()` is the only use of old_stack
CallUpdateHeaderStack(old_stack, new_headers) ==
  [returned |-> update_header_stack(old_stack, new_headers),
   old_stack |-> old_stack]

(***************************************************************************)
(* Text helpers of a text call (processing.py).                            *)
(***************************************************************************)
MAX_HEADER_LEVEL == 6

\* the loop body storing the header text in place of the line
LineHeaders_TextOnly(line) ==
  LET stripped == LStrip(line, Whitespace)
      level    == Len(stripped) - Len(LStrip(stripped, {"#"}))
      header_text == Strip(LStrip(stripped, {"#"}))
  IN  IF stripped # <<>> /\ Head(stripped) = "#"
         /\ level > 0 /\ level <= MAX_HEADER_LEVEL
         /\ header_text # <<>>
      THEN <<<<level, header_text>>>>
      ELSE <<>>

\* the loop body taking a header of any number of hashes
LineHeaders_AnyLevel(line) ==
  LET stripped == LStrip(line, Whitespace)
      level    == Len(stripped) - Len(LStrip(stripped, {"#"}))
      header_text == Strip(LStrip(stripped, {"#"}))
  IN  IF stripped # <<>> /\ Head(stripped) = "#"
         /\ level > 0
         /\ header_text # <<>>
      THEN <<<<level, line>>>>
      ELSE <<>>

\* the loop body storing the line without its leading whitespace
LineHeaders_Stripped(line) ==
  LET stripped == LStrip(line, Whitespace)
      level    == Len(stripped) - Len(LStrip(stripped, {"#"}))
      header_text == Strip(LStrip(stripped, {"#"}))
  IN  IF stripped # <<>> /\ Head(stripped) = "#"
         /\ level > 0 /\ level <= MAX_HEADER_LEVEL
         /\ header_text # <<>>
      THEN <<<<level, stripped>>>>
      ELSE <<>>

\* the body of the `for line in markdown.split("\n")` loop: the headers one
\* line contributes
LineHeaders(line) ==
  LET stripped == LStrip(line, Whitespace)
      level    == Len(stripped) - Len(LStrip(stripped, {"#"}))
      header_text == Strip(LStrip(stripped, {"#"}))
  IN  IF stripped # <<>> /\ Head(stripped) = "#"
         /\ level > 0 /\ level <= MAX_HEADER_LEVEL
         /\ header_text # <<>>
      THEN <<<<level, line>>>>
      ELSE <<>>

RECURSIVE HeadersOfLines(_)
HeadersOfLines(lines) ==
  IF lines = <<>> THEN <<>>
  ELSE LineHeaders(Head(lines)) \o HeadersOfLines(Tail(lines))

extract_headers(markdown) == HeadersOfLines(SplitLines(markdown))

\* the backquote character (a string of the module cannot hold it: written "^")
BQ == "^"

\* the code-fence markers "```markdown" and "```"
FenceMarkdown == <<BQ, BQ, BQ, "m", "a", "r", "k", "d", "o", "w", "n">>
Fence == <<BQ, BQ, BQ>>

clean_markdown_output(text) ==
  LET lines  == SplitLines(text)
      lines1 == IF lines # <<>> /\ Strip(lines[1]) = FenceMarkdown
                THEN Tail(lines) ELSE lines
      lines2 == IF lines1 # <<>> /\ Strip(lines1[Len(lines1)]) = Fence
                THEN SubSeq(lines1, 1, Len(lines1) - 1) ELSE lines1
  IN  JoinWith(<<"\n">>, lines2)

\* config.DOCUMENT_BREADCRUMB_HEADER = "### DOCUMENT LOCATION BREADCRUMB\n"
DOCUMENT_BREADCRUMB_HEADER ==
  <<"#", "#", "#", " ", "D", "O", "C", "U", "M", "E", "N", "T", " ",
    "L", "O", "C", "A", "T", "I", "O", "N", " ",
    "B", "R", "E", "A", "D", "C", "R", "U", "M", "B", "\n">>

\* "  " * (level - 1) + text for each entry of the stack
RECURSIVE BreadcrumbLines(_)
BreadcrumbLines(header_stack) ==
  IF header_stack = <<>> THEN <<>>
  ELSE <<Repeat(<<" ", " ">>, Head(header_stack)[1] - 1) \o Head(header_stack)[2]>>
       \o BreadcrumbLines(Tail(header_stack))

\* a context whose entries are indented by level units of two spaces
build_context_IndentLevel(header_stack) ==
  DOCUMENT_BREADCRUMB_HEADER
  \o JoinWith(<<"\n">>,
              [i \in 1..Len(header_stack) |->
                 Repeat(<<" ", " ">>, header_stack[i][1]) \o header_stack[i][2]])

build_context(header_stack) ==
  DOCUMENT_BREADCRUMB_HEADER \o JoinWith(<<"\n">>, BreadcrumbLines(header_stack))

(***************************************************************************)
(* Configuration (config.py) and the endpoint's possible behaviour.        *)
(***************************************************************************)
MIN_HTTP_ERROR_CODE == 400
MAX_RETRY_ATTEMPTS == 3
EXPONENTIAL_BACKOFF_BASE == 2
DEFAULT_START_PAGE == 1

\* b ** e
RECURSIVE Pow(_, _)
Pow(b, e) == IF e = 0 THEN 1 ELSE b * Pow(b, e - 1)

Min(a, b) == IF a <= b THEN a ELSE b

\* statuses an APIStatusError of the endpoint carries in a run
StatusCodes == {399, 500}

\* statuses an APIStatusError of the endpoint carries in a call taken alone
CallStatusCodes == {399, 400, 403, 500, 503}

\* texts the model can stream back for a batch
TextB == <<"#", "#", " ", "B">>
TextFenced ==
  FenceMarkdown \o <<"\n", "#", " ", "A", "\n", "#", "#", "#", " ", "C", "\n">> \o Fence

ModelTexts == {<<>>, TextB, TextFenced}

\* the content.delta events each of these texts arrives in
StreamFenced ==
  <<FenceMarkdown \o <<"\n", "#", " ", "A", "\n">>,
    <<"#", "#", "#", " ", "C", "\n">> \o Fence>>

ModelStreams == {<<>>, <<TextB>>, StreamFenced}

RECURSIVE Flatten(_)
Flatten(parts) == IF parts = <<>> THEN <<>> ELSE Head(parts) \o Flatten(Tail(parts))

StreamDeltas == UNION {{x[i] : i \in 1..Len(x)} : x \in ModelStreams}

\* the deltas that can follow the text received so far in an attempt
NextDeltas(response_text) ==
  {d \in StreamDeltas :
     \E x \in ModelStreams : \E n \in 0..(Len(x) - 1) :
       /\ Flatten(SubSeq(x, 1, n)) = response_text
       /\ d = x[n + 1]}

Kinds == {"text", "image"}

Sibling(k) == IF k = "text" THEN "image" ELSE "text"

\* what one attempt of a call can end with, given the statuses of the endpoint
OutcomesWith(k, codes) ==
  {[type |-> "ok", extracted |-> n] :
     n \in IF k = "image" THEN 0..MaxExtracted ELSE {0}}
  \cup {[type |-> "status", code |-> c] : c \in codes}
  \cup {[type |-> "exc"]}

Outcomes(k) == OutcomesWith(k, StatusCodes)

CallOutcomes(k) == OutcomesWith(k, CallStatusCodes)

(***************************************************************************)
(* _batch_iterator: the <<batch_num, page_start, page_end>> triples of     *)
(* range(start_page - 1, end_page, batch_size).                            *)
(***************************************************************************)
\* the loop with page_end = batch_start + batch_size, not capped at end_page
RECURSIVE BatchesFrom_NoMin(_, _, _, _)
BatchesFrom_NoMin(batch_start, end_page, size, num) ==
  IF batch_start >= end_page
  THEN <<>>
  ELSE <<<<num, batch_start + 1, batch_start + size>>>>
       \o BatchesFrom_NoMin(batch_start + size, end_page, size, num + 1)

RECURSIVE BatchesFrom(_, _, _, _)
BatchesFrom(batch_start, end_page, size, num) ==
  IF batch_start >= end_page
  THEN <<>>
  ELSE <<<<num, batch_start + 1, Min(batch_start + size, end_page)>>>>
       \o BatchesFrom(batch_start + size, end_page, size, num + 1)

batch_iterator(start_page, end_page, size) ==
  BatchesFrom(start_page - 1, end_page, size, 0)

(***************************************************************************)
(* The page images of a run: convert_from_path, pages_to_images and the    *)
(* slice of self.page_images that a batch takes.  An image is named by the *)
(* page of the PDF that it shows.                                          *)
(***************************************************************************)
\* list(range(first, last + 1))
PageRange(first, last) ==
  [i \in 1..(IF last >= first THEN last - first + 1 ELSE 0) |-> first + i - 1]

\* pdf2image.convert_from_path(pdf, first_page, last_page) on a PDF of
\* pdf_pages pages; without last_page it goes to the last page
convert_from_path(pdf_pages, first_page, last_page) ==
  PageRange(first_page, Min(last_page, pdf_pages))

\* the loop of pages_to_images: PageImage(page_num, ...) of pages[i] for
\* i, page_num in enumerate(page_nums)
PageImages(pages, page_nums) ==
  IF pages = <<>>
  THEN [raised |-> "ValueError", images |-> <<>>]
  ELSE IF Len(page_nums) > Len(pages)
  THEN [raised |-> "IndexError", images |-> <<>>]
  ELSE [raised |-> "ok",
        images |-> [i \in 1..Len(page_nums) |->
                     [page_num |-> page_nums[i], page |-> pages[i]]]]

\* pages_to_images(pdf_path, start_page, end_page, output_dir); end_page is <<>>
\* for None and <<n>> for the page n >= 1. The page numbers are
\* range(start_page, end_page or len(pages) + 1)
pages_to_images(pdf_pages, start_page, end_page) ==
  LET pages == convert_from_path(pdf_pages, start_page,
                                 IF end_page = <<>> THEN pdf_pages ELSE end_page[1])
      stop  == IF end_page = <<>> THEN Len(pages) + 1 ELSE end_page[1]
  IN  PageImages(pages, PageRange(start_page, stop - 1))

\* pages_to_images_with_ui(pdf_path, start_page, end_page, output_dir)
pages_to_images_with_ui(pdf_pages, start_page, end_page) ==
  LET pages == convert_from_path(pdf_pages, start_page, end_page)
  IN  PageImages(pages, PageRange(start_page, end_page))

\* lst[lo:hi] of a list, 0 <= lo
Slice(lst, lo, hi) == SubSeq(lst, lo + 1, Min(hi, Len(lst)))

(***************************************************************************)
(* The proposed visual elements of an image response: the area filter,     *)
(* extract_image and ExtractedImage.save_to_disk.                          *)
(***************************************************************************)
\* config.MIN_AREA_PERCENTAGE = 0.05 and config.MAX_AREA_PERCENTAGE = 0.85,
\* in hundredths
MIN_AREA_PERCENTAGE == 5
MAX_AREA_PERCENTAGE == 85

\* coordinates, page numbers and figure numbers a response can propose
Bboxes == {0, 1000} \X {0, 50} \X {0, 1000, 1050} \X {0, 40, 50, 850, 900}
Elements ==
  [bbox : Bboxes, page_number : {2, 3}, fig_number : {1, 2}]

\* element_area = (x2 - x1) * (y2 - y1)
element_area(bbox) == (bbox[3] - bbox[1]) * (bbox[4] - bbox[2])

\* an area filter that lets elements that are too large through
AreaVerdict_OnlySmall(bbox) ==
  IF element_area(bbox) * 100 < MIN_AREA_PERCENTAGE * 1000000 THEN "too small"
  ELSE "in range"

\* normalized_area_percentage = element_area / 1000000, compared with the two
\* limits
AreaVerdict(bbox) ==
  IF element_area(bbox) * 100 < MIN_AREA_PERCENTAGE * 1000000 THEN "too small"
  ELSE IF element_area(bbox) * 100 > MAX_AREA_PERCENTAGE * 1000000 THEN "too large"
  ELSE "in range"

\* an extract_image that takes the element's page wherever it is in the
\* document
extract_image_AnyPage(metadata, pages) ==
  LET x1 == metadata.bbox[1]
      y1 == metadata.bbox[2]
      x2 == metadata.bbox[3]
      y2 == metadata.bbox[4]
  IN  IF ~(0 <= x1 /\ x1 < x2 /\ x2 <= 1000 /\ 0 <= y1 /\ y1 < y2 /\ y2 <= 1000)
      THEN "ValueError"
      ELSE "ok"

\* extract_image: the page lookup and the bbox validation; what it raises, or
\* "ok" when it returns the cropped ExtractedImage
extract_image(metadata, pages) ==
  LET x1 == metadata.bbox[1]
      y1 == metadata.bbox[2]
      x2 == metadata.bbox[3]
      y2 == metadata.bbox[4]
  IN  IF metadata.page_number \notin pages THEN "StopIteration"
      ELSE IF ~(0 <= x1 /\ x1 < x2 /\ x2 <= 1000 /\ 0 <= y1 /\ y1 < y2 /\ y2 <= 1000)
      THEN "ValueError"
      ELSE "ok"

\* str(n) of a natural number
Digit(d) == <<"0", "1", "2", "3", "4", "5", "6", "7", "8", "9">>[d + 1]

RECURSIVE Str(_)
Str(n) == IF n < 10 THEN <<Digit(n)>> ELSE Str(n \div 10) \o <<Digit(n % 10)>>

\* a file name with the figure number before the page number
FileName_Swapped(metadata) ==
  Str(metadata.fig_number) \o <<"_", "f", "i", "g">> \o Str(metadata.page_number)
  \o <<".", "p", "n", "g">>

\* save_to_disk: f"{page_number}_fig{fig_number}.png"
FileName(metadata) ==
  Str(metadata.page_number) \o <<"_", "f", "i", "g">> \o Str(metadata.fig_number)
  \o <<".", "p", "n", "g">>

\* an exception of one element that leaves the loop and fails the call
AfterElementError_Raise(loop) == [loop EXCEPT !.st = "failed"]

\* `except Exception as e: callbacks.on_error(...)`: the loop goes on
AfterElementError(loop) == loop

\* one iteration of `for metadata in images_val`; the older process_batch_images
\* calls extract_and_save_image with an argument missing, which raises TypeError
ProcessElement(a, loop, metadata, pages) ==
  LET area == AreaVerdict(metadata.bbox)
      raised == IF a = "gui" THEN "TypeError" ELSE extract_image(metadata, pages)
      seen == [loop EXCEPT !.count = @ + 1]
  IN  IF area # "in range"
      THEN [seen EXCEPT !.errors = @ \cup {<<"Skipping fig", area>>},
                        !.rejected = @ + 1,
                        !.last = <<[metadata |-> metadata, verdict |-> area,
                                    written |-> <<>>]>>]
      ELSE IF raised # "ok"
      THEN AfterElementError(
             [seen EXCEPT !.errors = @ \cup {<<"Image extraction failed", raised>>},
                          !.rejected = @ + 1,
                          !.last = <<[metadata |-> metadata, verdict |-> raised,
                                      written |-> <<>>]>>])
      ELSE [seen EXCEPT !.extracted_images = Append(@, metadata),
                        !.images_extracted = @ + 1,
                        !.dir = @ \cup {FileName(metadata)},
                        !.last = <<[metadata |-> metadata, verdict |-> "saved",
                                    written |-> <<FileName(metadata)>>]>>]

(***************************************************************************)
(* build_image_content: the input tokens of the page images of a batch.    *)
(***************************************************************************)
IMAGE_TOKEN_SIZE == 28

\* a dimension that is sent as it is
Downscaled_None(x) == x

\* int(x * scale_factor) with scale_factor = 100 / 130
Downscaled(x) == (x * 100) \div 130

\* tokens of one page image of dimensions <<width, height>>
ImageTokens(dimensions, downscale) ==
  LET width  == IF downscale THEN Downscaled(dimensions[1]) ELSE dimensions[1]
      height == IF downscale THEN Downscaled(dimensions[2]) ELSE dimensions[2]
  IN  (width \div IMAGE_TOKEN_SIZE) * (height \div IMAGE_TOKEN_SIZE)

\* total_tokens of build_image_content(images, downscale); the content list
\* it returns with it is left out
RECURSIVE build_image_content(_, _)
build_image_content(images, downscale) ==
  IF images = <<>> THEN 0
  ELSE ImageTokens(Head(images), downscale)
       + build_image_content(Tail(images), downscale)

\* widths and heights of page images: none, and the pixels around one and
\* two tiles before and after the downscaling
PageDimensions == {0, 36, 37, 73} \X {28, 37, 73}

(***************************************************************************)
(* State.                                                                  *)
(***************************************************************************)
VARIABLES
  app,             \* "job": OcrWorkbenchApi + DocumentJob; "gui": OCRApp
  num_pages,       \* len(self.page_images) / total_pages
  batch_size,      \* config.DEFAULT_BATCH_SIZE / state.batch_size
  pc,              \* where the run is
  batch_num,       \* batch_num of the loop
  context,         \* context of the loop
  header_stack,    \* header_stack of the run
  task,            \* text_task and image_task of the current TaskGroup
  aborting,        \* TaskGroup._aborting
  run_cancel,      \* a cancel() of the run's task is pending or was delivered
  processing_task, \* DocumentJob.processing_task
  current_task,    \* GUIState.current_task
  errors,          \* on_error events emitted
  complete_count,  \* on_complete events emitted
  totals,          \* total_input_tokens, total_output_tokens, extracted_images of the run
  job_state,       \* ProcessingJobState of the job / what OCRApp shows
  sleeping,        \* the call whose time.sleep holds the event loop's thread
  batch_log,       \* history: batch_num of every TaskGroup entered
  call_started,    \* history: <<kind, batch_num>> of every call that started
  call_done,       \* history: <<kind, batch_num, how>> of every call that is done
  text_headers,    \* history: the headers each merged text call returned
  user_cancel,     \* history: <<batch and calls in flight>> when the user cancelled
  batch_texts,     \* history: the response_text of each merged text call
  output_file,     \* the output file: what is flushed and what is only written
  file_log,        \* history: batch_num of the call behind each write to the file
  st_pc,           \* update_header_stack alone: "idle", or "called" after a call
  st_old,          \* update_header_stack alone: old_stack of the call
  st_hdrs,         \* update_header_stack alone: new_headers of the call
  st_new,          \* update_header_stack alone: the stack the caller holds
  st_arg,          \* update_header_stack alone: the list passed, after the call
  call_kind,       \* a call alone: "text" or "image"
  call,            \* a call alone: the call, as in task
  call_errors,     \* a call alone: on_error events emitted
  bi_pc,           \* _batch_iterator alone: "idle", or "called" after a call
  bi_args,         \* _batch_iterator alone: <<start_page, end_page, batch_size>>
  bi_out,          \* _batch_iterator alone: the triples it yielded
  im_pages,        \* element loop alone: page_num of the PageImages of the batch
  im,              \* element loop alone: the loop over the proposed elements
  eh_pc,           \* extract_headers alone: "idle", or "called" after a call
  eh_in,           \* extract_headers alone: the <<level, text>> the lines are built from
  eh_out,          \* extract_headers alone: the list it returned
  tk_pc,           \* build_image_content alone: "idle", or "called" after a call
  tk_images,       \* build_image_content alone: the dimensions of the PageImages
  tk_out,          \* build_image_content alone: the token count it returned
  pg_pc,           \* page images alone: where the conversion and the batch loop are
  pg_args,         \* page images alone: <<start page, pages of the PDF, batch size>>
  pg_images,       \* page images alone: self.page_images
  pg_todo,         \* page images alone: the batches the iterator has yet to yield
  pg_handed,       \* page images alone: the batch and the images of the last TaskGroup
  crumbs,          \* breadcrumb alone: two runs of the batch loop's stack and context
  md,              \* text of a response alone: its lines, cleaned text and headers
  crop,            \* extract_image_from_page alone: dimensions, bbox and crop box
  conv             \* pages_to_images alone: its arguments and the list it returned

cfg_vars == <<app, num_pages, batch_size>>
loop_vars == <<pc, batch_num, context, header_stack, task, aborting, run_cancel,
               processing_task, current_task, errors, complete_count, totals,
               sleeping>>
run_vars == <<loop_vars, job_state>>
report_vars == <<totals, job_state>>
hist_vars == <<batch_log, call_started, call_done, text_headers, batch_texts, user_cancel>>
stack_vars == <<st_pc, st_old, st_hdrs, st_new, st_arg>>
call_vars == <<call_kind, call, call_errors>>
iter_vars == <<bi_pc, bi_args, bi_out>>
image_vars == <<im_pages, im>>
head_vars == <<eh_pc, eh_in, eh_out>>
token_vars == <<tk_pc, tk_images, tk_out>>
page_vars == <<pg_pc, pg_args, pg_images, pg_todo, pg_handed>>
alone_vars == <<crumbs, md, crop, conv>>
fn_vars == <<iter_vars, image_vars, head_vars, token_vars, page_vars, alone_vars>>
file_vars == <<output_file, file_log>>

vars == <<cfg_vars, fn_vars, file_vars, run_vars, hist_vars, stack_vars, call_vars>>

NoTask ==
  [st |-> "none", batch |-> 0, context |-> <<>>, attempt |-> 0,
   responses |-> <<>>, waits |-> <<>>, must_cancel |-> FALSE,
   abort_pending |-> FALSE, error |-> <<>>, headers |-> <<>>,
   response_text |-> <<>>, extracted |-> 0]

\* total_input_tokens = 0, total_output_tokens = 0, no extracted image
NoTotals == [input_tokens |-> 0, output_tokens |-> 0, images |-> 0]

\* the ProcessingJobState that start_processing creates
NoJobState ==
  [status |-> "pending", total_input_tokens |-> 0, total_output_tokens |-> 0,
   images_extracted |-> 0, error |-> <<>>]

\* open(output_md_path, "w"): an empty file
NewFile == [content |-> <<>>, buffer |-> <<>>]

\* a write that starts the file over, as a file reopened with "w" does
WriteDelta_Truncate(file, delta) == [content |-> <<>>, buffer |-> delta]

\* output_file.write(delta): into the buffer of the file object
WriteDelta(file, delta) == [file EXCEPT !.buffer = @ \o delta]

\* a flush that leaves the buffer where it is
Flush_Skipped(file) == file

\* output_file.flush(): the buffer goes to the file
Flush(file) == [content |-> file.content \o file.buffer, buffer |-> <<>>]

\* leaving `with open(...) as output_file`: the file is closed
CloseFile(file) == [content |-> file.content \o file.buffer, buffer |-> <<>>]

None == "None"

\* DocumentJob.is_processing
is_processing == processing_task # None

Done(t) == t.st \in {"success", "failed", "cancelled"}

RunInit ==
  /\ pc = "idle"
  /\ batch_num = 0
  /\ context = <<>>
  /\ header_stack = <<>>
  /\ task = [k \in Kinds |-> NoTask]
  /\ aborting = FALSE
  /\ run_cancel = FALSE
  /\ processing_task = None
  /\ current_task = None
  /\ errors = {}
  /\ complete_count = 0
  /\ totals = NoTotals
  /\ job_state = NoJobState
  /\ sleeping = None
  /\ batch_log = <<>>
  /\ call_started = {}
  /\ call_done = {}
  /\ text_headers = <<>>
  /\ user_cancel = <<>>
  /\ batch_texts = <<>>
  /\ output_file = NewFile
  /\ file_log = <<>>

StackIdle ==
  /\ st_pc = "idle"
  /\ st_old = <<>>
  /\ st_hdrs = <<>>
  /\ st_new = <<>>
  /\ st_arg = <<>>

CallIdle ==
  /\ call_kind = "text"
  /\ call = NoTask
  /\ call_errors = {}

IterIdle ==
  /\ bi_pc = "idle"
  /\ bi_args = <<1, 0, 1>>
  /\ bi_out = <<>>

\* the element loop before its first element
NoElements ==
  [st |-> "running", count |-> 0, extracted_images |-> <<>>,
   images_extracted |-> 0, dir |-> {}, errors |-> {}, rejected |-> 0,
   last |-> <<>>]

ImagesIdle ==
  /\ im_pages = {}
  /\ im = NoElements

HeadersIdle ==
  /\ eh_pc = "idle"
  /\ eh_in = <<>>
  /\ eh_out = <<>>

TokensIdle ==
  /\ tk_pc = "idle"
  /\ tk_images = <<>>
  /\ tk_out = 0

PagesIdle ==
  /\ pg_pc = "idle"
  /\ pg_args = <<>>
  /\ pg_images = <<>>
  /\ pg_todo = <<>>
  /\ pg_handed = <<>>

AloneIdle ==
  /\ crumbs = <<>>
  /\ md = <<>>
  /\ crop = <<>>
  /\ conv = <<>>

FnIdle == IterIdle /\ ImagesIdle /\ HeadersIdle /\ TokensIdle /\ PagesIdle /\ AloneIdle

Init ==
  /\ app \in {"job", "gui"}
  /\ num_pages \in 0..MaxPages
  /\ batch_size \in 1..MaxBatchSize
  /\ RunInit
  /\ StackIdle
  /\ CallIdle
  /\ FnIdle

Batches == batch_iterator(DEFAULT_START_PAGE, num_pages, batch_size)

(***************************************************************************)
(* The run: DocumentJob.run (job) and OCRApp._process_pdf (gui).           *)
(***************************************************************************)
\* the context of a batch built without reading the header stack
BatchContext_Empty(a, stack) ==
  IF a = "job" THEN build_context(<<>>) ELSE <<>>

\* the context of a batch, from the header stack
BatchContext(a, stack) ==
  IF a = "job"
  THEN build_context(stack)
  ELSE IF stack # <<>> THEN build_context(stack) ELSE <<>>

\* `async with asyncio.TaskGroup() as tg:` and its two tg.create_task calls
\* build_image_content: (width // IMAGE_TOKEN_SIZE) * (height // IMAGE_TOKEN_SIZE)
\* tokens for each page image, the pages being of one size
PageTokens == 1

\* input_tokens of the calls of batch b
InputTokens(b) == (Batches[b + 1][3] - Batches[b + 1][2] + 1) * PageTokens

\* output_tokens = len(config.enc.encode(response_text)), one token to a
\* character
OutputTokens(response_text) == Len(response_text)

\* OcrWorkbenchApi._on_batch_start; OCRApp._on_batch_start keeps the tokens of
\* the current batch only
OnBatchStart(a, state, input_tokens) ==
  IF a = "job"
  THEN [state EXCEPT !.status = "processing",
                     !.total_input_tokens = @ + input_tokens]
  ELSE state

\* OcrWorkbenchApi._on_error; OCRApp._on_error shows the message
OnError(a, state, msg) ==
  IF a = "job"
  THEN [state EXCEPT !.status = "error", !.error = msg]
  ELSE [state EXCEPT !.error = msg]

\* the on_error events of one step of a call
OnErrors(a, state, msgs) ==
  IF msgs = {} THEN state ELSE OnError(a, state, CHOOSE m \in msgs : TRUE)

\* OcrWorkbenchApi._on_complete takes the totals of the run; OCRApp._on_complete
\* shows them
OnComplete(a, state, t) ==
  IF a = "job"
  THEN [state EXCEPT !.status = "completed",
                     !.total_input_tokens = t.input_tokens,
                     !.total_output_tokens = t.output_tokens,
                     !.images_extracted = t.images]
  ELSE [state EXCEPT !.status = "completed"]

\* a cancellation reported with the message of a failure
CancelledMessage_AsFailure == <<"Processing failed">>

\* the message of the except clause for asyncio.CancelledError
CancelledMessage == <<"Processing cancelled">>

\* the run ends with a CancelledError: on_error("Processing cancelled"), raise
OnRunCancelled(a, state) == OnError(a, state, CancelledMessage)

\* the run ends with an exception: on_error("Processing failed: ..."), raise;
\* run_async_processing then stores str(e) of the ExceptionGroup
OnRunFailed(a, state) ==
  IF a = "job"
  THEN OnError(a, OnError(a, state, <<"Processing failed">>),
               <<"unhandled errors in a TaskGroup">>)
  ELSE OnError(a, state, <<"Processing failed">>)

\* total_input_tokens += input_tokens; total_output_tokens += output_tokens;
\* self.extracted_images.extend(extracted_images_batch)
AddBatch(t, b, text_task, image_task) ==
  [input_tokens |-> t.input_tokens + InputTokens(b),
   output_tokens |-> t.output_tokens + OutputTokens(text_task.response_text),
   images |-> t.images + image_task.extracted]

CreateTasks(b, ctx) ==
  /\ task' = [k \in Kinds |-> [NoTask EXCEPT !.st = "created", !.batch = b,
                                             !.context = ctx]]
  /\ aborting' = FALSE
  /\ batch_log' = Append(batch_log, b)

\* OcrWorkbenchApi.start_processing, and DocumentJob.run up to its first await
start_processing ==
  /\ app = "job"
  /\ pc = "idle"
  /\ UNCHANGED <<cfg_vars, fn_vars, sleeping, totals, file_log, stack_vars, call_vars, header_stack, run_cancel, processing_task,
                 current_task, complete_count, call_started, call_done, text_headers, batch_texts, user_cancel>>
  /\ IF is_processing
     THEN /\ pc' = "returned"
          /\ UNCHANGED <<batch_num, context, task, aborting, errors, batch_log,
                         output_file, job_state>>
     ELSE IF num_pages = 0
     THEN /\ pc' = "returned"
          /\ errors' = errors \cup {<<"No pages could be extracted from PDF">>}
          /\ job_state' = OnError(app, NoJobState,
                                  <<"No pages could be extracted from PDF">>)
          /\ output_file' = CloseFile(NewFile)
          /\ UNCHANGED <<batch_num, context, task, aborting, batch_log>>
     ELSE /\ pc' = "group"
          /\ batch_num' = Batches[1][1]
          /\ context' = BatchContext(app, header_stack)
          /\ CreateTasks(Batches[1][1], BatchContext(app, header_stack))
          /\ output_file' = NewFile
          /\ job_state' = NoJobState
          /\ UNCHANGED errors

\* OCRApp._start_processing, and OCRApp._process_pdf up to its first await
OCRApp_start_processing ==
  /\ app = "gui"
  /\ pc = "idle"
  /\ current_task' = "task"
  /\ UNCHANGED <<cfg_vars, fn_vars, sleeping, totals, file_log, stack_vars, call_vars, hist_vars, header_stack, run_cancel,
                 processing_task, errors, task, aborting>>
  /\ IF Batches = <<>>
     THEN /\ pc' = "completed"
          /\ complete_count' = complete_count + 1
          /\ output_file' = CloseFile(NewFile)
          /\ job_state' = OnComplete(app, NoJobState, totals)
          /\ UNCHANGED <<batch_num, context>>
     ELSE /\ pc' = "raster"
          /\ batch_num' = Batches[1][1]
          /\ context' = BatchContext(app, header_stack)
          /\ output_file' = NewFile
          /\ job_state' = NoJobState
          /\ UNCHANGED complete_count

\* OCRApp._process_pdf: `await asyncio.to_thread(...)` returns, the TaskGroup
\* is entered
RasterDone ==
  /\ app = "gui"
  /\ pc = "raster"
  /\ ~run_cancel
  /\ pc' = "group"
  /\ CreateTasks(batch_num, context)
  /\ UNCHANGED <<cfg_vars, fn_vars, sleeping, report_vars, file_vars, stack_vars, call_vars, batch_num, context, header_stack, run_cancel,
                 processing_task, current_task, errors, complete_count,
                 call_started, call_done, text_headers, batch_texts, user_cancel>>

\* OCRApp._process_pdf: the cancellation arrives at `await asyncio.to_thread`
RasterCancelled ==
  /\ app = "gui"
  /\ pc = "raster"
  /\ run_cancel
  /\ pc' = "cancelled"
  /\ errors' = errors \cup {CancelledMessage}
  /\ job_state' = OnRunCancelled(app, job_state)
  /\ current_task' = None
  /\ output_file' = CloseFile(output_file)
  /\ UNCHANGED <<cfg_vars, fn_vars, sleeping, totals, file_log, stack_vars, call_vars, hist_vars, batch_num, context, header_stack,
                 task, aborting, run_cancel, processing_task, complete_count>>

(***************************************************************************)
(* The two model calls of a batch: _process_batch_text and                 *)
(* _process_batch_images (process_batch_text / process_batch_images).      *)
(***************************************************************************)
\* the handler of an attempt called time.sleep(wait_time)
Sleeps(before, after) == Len(after.waits) > Len(before.waits)

\* the thread of the event loop is not inside a time.sleep: a callback or a
\* step of a coroutine can run
LoopRuns == sleeping = None

\* first step of a call: build_image_content, on_batch_start, and the first
\* attempt's request; tasks start in the order they were created
TaskStart(k) ==
  /\ LoopRuns
  /\ pc = "group"
  /\ task[k].st = "created"
  /\ ~task[k].must_cancel
  /\ k = "image" => task["text"].st # "created"
  /\ task' = [task EXCEPT ![k].st = "attempting", ![k].attempt = 0]
  /\ call_started' = call_started \cup {<<k, task[k].batch>>}
  /\ job_state' = OnBatchStart(app, job_state, InputTokens(task[k].batch))
  /\ UNCHANGED <<cfg_vars, fn_vars, sleeping, totals, file_vars, stack_vars, call_vars, pc, batch_num, context, header_stack,
                 aborting, run_cancel, processing_task, current_task, errors,
                 complete_count, batch_log, call_done, text_headers, batch_texts,
                 user_cancel>>

\* the status-error clause waiting base * attempt seconds
OnStatusError_LinearWait(t, code) ==
  IF code < MIN_HTTP_ERROR_CODE
  THEN <<[t EXCEPT !.st = "failed", !.abort_pending = TRUE,
                   !.error = <<"API error in batch", t.batch + 1>>],
         {<<"API error", code>>}>>
  ELSE IF t.attempt < MAX_RETRY_ATTEMPTS - 1
  THEN <<[t EXCEPT !.waits = Append(@, EXPONENTIAL_BACKOFF_BASE * t.attempt),
                   !.attempt = @ + 1],
         {}>>
  ELSE <<[t EXCEPT !.st = "failed", !.abort_pending = TRUE,
                   !.error = <<"Max retries exceeded for batch", t.batch + 1>>],
         {<<"Max retries exceeded for batch", t.batch + 1, code>>}>>

\* the status-error clause retrying once more than the attempts allowed
OnStatusError_OneMore(t, code) ==
  IF code < MIN_HTTP_ERROR_CODE
  THEN <<[t EXCEPT !.st = "failed", !.abort_pending = TRUE,
                   !.error = <<"API error in batch", t.batch + 1>>],
         {<<"API error", code>>}>>
  ELSE IF t.attempt < MAX_RETRY_ATTEMPTS
  THEN <<[t EXCEPT !.waits = Append(@, Pow(EXPONENTIAL_BACKOFF_BASE, t.attempt)),
                   !.attempt = @ + 1],
         {}>>
  ELSE <<[t EXCEPT !.st = "failed", !.abort_pending = TRUE,
                   !.error = <<"Max retries exceeded for batch", t.batch + 1>>],
         {<<"Max retries exceeded for batch", t.batch + 1, code>>}>>

\* the status-error clause waiting and going on after every attempt
OnStatusError_AlwaysRetry(t, code) ==
  IF code < MIN_HTTP_ERROR_CODE
  THEN <<[t EXCEPT !.st = "failed", !.abort_pending = TRUE,
                   !.error = <<"API error in batch", t.batch + 1>>],
         {<<"API error", code>>}>>
  ELSE <<[t EXCEPT !.waits = Append(@, Pow(EXPONENTIAL_BACKOFF_BASE, t.attempt)),
                   !.attempt = @ + 1],
         {}>>

\* the except clauses of one attempt: <<task record, on_error events>>
OnStatusError(t, code) ==
  IF code < MIN_HTTP_ERROR_CODE
  THEN <<[t EXCEPT !.st = "failed", !.abort_pending = TRUE,
                   !.error = <<"API error in batch", t.batch + 1>>],
         {<<"API error", code>>}>>
  ELSE IF t.attempt < MAX_RETRY_ATTEMPTS - 1
  THEN <<[t EXCEPT !.waits = Append(@, Pow(EXPONENTIAL_BACKOFF_BASE, t.attempt)),
                   !.attempt = @ + 1],
         {}>>
  ELSE <<[t EXCEPT !.st = "failed", !.abort_pending = TRUE,
                   !.error = <<"Max retries exceeded for batch", t.batch + 1>>],
         {<<"Max retries exceeded for batch", t.batch + 1, code>>}>>

\* the clause for other exceptions going on to the next attempt
OnException_Retry(t) ==
  IF t.attempt < MAX_RETRY_ATTEMPTS - 1
  THEN <<[t EXCEPT !.attempt = @ + 1], {<<"Unexpected error">>}>>
  ELSE <<[t EXCEPT !.st = "failed", !.abort_pending = TRUE,
                   !.error = <<"Unexpected error in batch", t.batch + 1>>],
         {<<"Unexpected error">>}>>

OnException(t) ==
  <<[t EXCEPT !.st = "failed", !.abort_pending = TRUE,
              !.error = <<"Unexpected error in batch", t.batch + 1>>],
    {<<"Unexpected error">>}>>

\* the return of a successful attempt
OnSuccess(k, t, o) ==
  <<[t EXCEPT !.st = "success",
              !.extracted = o.extracted,
              !.headers = IF k = "text"
                          THEN extract_headers(clean_markdown_output(t.response_text))
                          ELSE <<>>],
    {}>>

\* how an attempt of a call alone can end: the stream ends once a whole text
\* has arrived; an APIStatusError or another exception can leave the
\* `async with ... as stream` block at any point of it
CallCanEndWith(k, t, o) ==
  (o.type = "ok" /\ k = "text") => t.response_text \in ModelTexts

\* how an attempt of a call of a run can end: the same, with the status error
\* of an attempt taken at the status line of the response, before any delta
CanEndWith(k, t, o) ==
  /\ o.type = "status" => t.response_text = <<>>
  /\ (o.type = "ok" /\ k = "text") => t.response_text \in ModelTexts

\* a content.delta event of the stream: response_text += delta
OnDelta(t, delta) == [t EXCEPT !.response_text = @ \o delta]

\* one attempt of a call ends: the body of the `for attempt in range(...)` loop
AttemptResult(k, t, o) ==
  LET seen == [t EXCEPT !.responses = Append(@, o)]
      r == IF o.type = "ok" THEN OnSuccess(k, seen, o)
           ELSE IF o.type = "status" THEN OnStatusError(seen, o.code)
           ELSE OnException(seen)
  IN  IF r[1].st # "attempting" THEN r
      ELSE IF r[1].attempt < MAX_RETRY_ATTEMPTS
      THEN \* the next attempt starts with `response_text = ""`
           <<[r[1] EXCEPT !.response_text = <<>>], r[2]>>
      ELSE \* range(MAX_RETRY_ATTEMPTS) is used up: the statement after the loop
           <<[r[1] EXCEPT !.st = "failed", !.abort_pending = TRUE,
                          !.error = <<"Unexpected code path">>],
             r[2]>>

\* an attempt of a call ends; a retry goes into time.sleep(wait_time), which
\* keeps the thread until it returns
TaskResponse(k) ==
  /\ LoopRuns
  /\ pc = "group"
  /\ task[k].st = "attempting"
  /\ ~task[k].must_cancel
  /\ \E o \in Outcomes(k) :
       LET r == AttemptResult(k, task[k], o)
       IN  /\ CanEndWith(k, task[k], o)
           /\ task' = [task EXCEPT ![k] = r[1]]
           /\ errors' = errors \cup r[2]
           /\ job_state' = OnErrors(app, job_state, r[2])
           /\ sleeping' = IF Sleeps(task[k], r[1]) THEN k ELSE None
           /\ call_done' = IF Done(r[1])
                           THEN call_done \cup {<<k, task[k].batch, r[1].st>>}
                           ELSE call_done
  /\ UNCHANGED <<cfg_vars, fn_vars, totals, file_vars, stack_vars, call_vars, pc, batch_num, context, header_stack,
                 aborting, run_cancel, processing_task, current_task,
                 complete_count, batch_log, call_started, text_headers, batch_texts, user_cancel>>

\* time.sleep(wait_time) returns: the loop of the call goes to its next
\* attempt
SleepReturns ==
  /\ sleeping # None
  /\ sleeping' = None
  /\ UNCHANGED <<cfg_vars, fn_vars, report_vars, file_vars, stack_vars, call_vars,
                 hist_vars, pc, batch_num, context, header_stack, task, aborting,
                 run_cancel, processing_task, current_task, errors, complete_count>>

\* the text call receives a delta: it is added to response_text, written to
\* the output file and flushed
TaskDelta ==
  /\ LoopRuns
  /\ pc = "group"
  /\ task["text"].st = "attempting"
  /\ ~task["text"].must_cancel
  /\ \E delta \in NextDeltas(task["text"].response_text) :
       /\ task' = [task EXCEPT !["text"] = OnDelta(@, delta)]
       /\ output_file' = Flush(WriteDelta(output_file, delta))
  /\ file_log' = Append(file_log, task["text"].batch)
  /\ UNCHANGED <<cfg_vars, fn_vars, sleeping, report_vars, stack_vars, call_vars, hist_vars, pc, batch_num,
                 context, header_stack, aborting, run_cancel, processing_task,
                 current_task, errors, complete_count>>

\* CancelledError is thrown into a call at its await (or before its first step)
TaskCancelled(k) ==
  /\ LoopRuns
  /\ pc = "group"
  /\ task[k].st \in {"created", "attempting"}
  /\ task[k].must_cancel
  /\ task' = [task EXCEPT ![k].st = "cancelled"]
  /\ call_done' = call_done \cup {<<k, task[k].batch, "cancelled">>}
  /\ UNCHANGED <<cfg_vars, fn_vars, sleeping, report_vars, file_vars, stack_vars, call_vars, pc, batch_num, context, header_stack,
                 aborting, run_cancel, processing_task, current_task, errors,
                 complete_count, batch_log, call_started, text_headers, batch_texts,
                 user_cancel>>

\* TaskGroup._abort: cancel every task of the group that is not done
Abort(tasks) ==
  [k \in Kinds |-> IF Done(tasks[k]) THEN tasks[k]
                   ELSE [tasks[k] EXCEPT !.must_cancel = TRUE]]

\* TaskGroup._on_task_done of a call that raised
TaskGroupOnTaskDone(k) ==
  /\ LoopRuns
  /\ pc = "group"
  /\ task[k].abort_pending
  /\ task' = Abort([task EXCEPT ![k].abort_pending = FALSE])
  /\ aborting' = TRUE
  /\ UNCHANGED <<cfg_vars, fn_vars, sleeping, report_vars, file_vars, stack_vars, call_vars, hist_vars, pc, batch_num, context,
                 header_stack, run_cancel, processing_task, current_task, errors,
                 complete_count>>

\* TaskGroup.__aexit__ receives the run's CancelledError while calls are pending
TaskGroupCancelled ==
  /\ LoopRuns
  /\ pc = "group"
  /\ run_cancel
  /\ ~aborting
  /\ \E k \in Kinds : ~Done(task[k])
  /\ task' = Abort(task)
  /\ aborting' = TRUE
  /\ UNCHANGED <<cfg_vars, fn_vars, sleeping, report_vars, file_vars, stack_vars, call_vars, hist_vars, pc, batch_num, context,
                 header_stack, run_cancel, processing_task, current_task, errors,
                 complete_count>>

\* the task group left as soon as the text call is done
GroupDone_TextOnly(tasks) ==
  Done(tasks["text"]) /\ ~tasks["text"].abort_pending

\* TaskGroup.__aexit__ returns once every task of the group is done and its
\* done-callback has run
GroupDone(tasks) ==
  \A k \in Kinds : Done(tasks[k]) /\ ~tasks[k].abort_pending

\* the task group swallowing the errors of its calls
GroupOutcome_Swallow(tasks, cancel) ==
  IF cancel THEN "cancelled" ELSE "ok"

\* how the `async with asyncio.TaskGroup()` block ends: the calls' errors leave
\* it as an ExceptionGroup, which has priority over the run's own CancelledError
GroupOutcome(tasks, cancel) ==
  IF \E k \in Kinds : tasks[k].st = "failed" THEN "failed"
  ELSE IF cancel THEN "cancelled"
  ELSE "ok"

\* header_stack = update_header_stack(header_stack, new_headers)
MergeHeaders(stack, new_headers) == update_header_stack(stack, new_headers)

\* a loop over the batches that ends after its first batch
MoreBatches_None(n) == FALSE

\* `for batch_num, page_start, page_end in self._batch_iterator(...)`: there is
\* a batch after batch n
MoreBatches(n) == n + 2 <= Len(Batches)

\* the TaskGroup is left once both calls are done; then the rest of the loop
\* body, and the loop up to the next await
Join ==
  /\ LoopRuns
  /\ pc = "group"
  /\ GroupDone(task)
  /\ UNCHANGED <<cfg_vars, fn_vars, sleeping, file_log, stack_vars, call_vars, run_cancel, processing_task,
                 call_started, call_done, user_cancel>>
  /\ LET outcome == GroupOutcome(task, run_cancel)
     IN
     IF outcome = "failed"
     THEN \* the error leaves the run: on_error, raise
          /\ pc' = "failed"
          /\ errors' = errors \cup {<<"Processing failed">>}
          /\ job_state' = OnRunFailed(app, job_state)
          /\ UNCHANGED totals
          /\ current_task' = None
          /\ task' = [k \in Kinds |-> NoTask]
          /\ output_file' = CloseFile(output_file)
          /\ UNCHANGED <<batch_num, context, header_stack, aborting,
                         complete_count, batch_log, text_headers, batch_texts>>
     ELSE IF outcome = "cancelled"
     THEN \* the CancelledError leaves the run: on_error, raise
          /\ pc' = "cancelled"
          /\ errors' = errors \cup {CancelledMessage}
          /\ job_state' = OnRunCancelled(app, job_state)
          /\ UNCHANGED totals
          /\ current_task' = None
          /\ task' = [k \in Kinds |-> NoTask]
          /\ output_file' = CloseFile(output_file)
          /\ UNCHANGED <<batch_num, context, header_stack, aborting,
                         complete_count, batch_log, text_headers, batch_texts>>
     ELSE LET new_headers == task["text"].headers
              new_stack == MergeHeaders(header_stack, new_headers)
              more == MoreBatches(batch_num)
              new_totals == AddBatch(totals, batch_num, task["text"], task["image"])
          IN  /\ header_stack' = new_stack
              /\ totals' = new_totals
              /\ text_headers' = Append(text_headers, new_headers)
              /\ batch_texts' = Append(batch_texts, task["text"].response_text)
              /\ UNCHANGED errors
              /\ IF ~more
                 THEN /\ pc' = "completed"
                      /\ complete_count' = complete_count + 1
                      /\ job_state' = OnComplete(app, job_state, new_totals)
                      /\ current_task' = None
                      /\ task' = [k \in Kinds |-> NoTask]
                      /\ output_file' = CloseFile(output_file)
                      /\ UNCHANGED <<batch_num, context, aborting, batch_log>>
                 ELSE /\ batch_num' = Batches[batch_num + 2][1]
                      /\ context' = BatchContext(app, new_stack)
                      /\ UNCHANGED <<complete_count, current_task, output_file,
                                     job_state>>
                      /\ IF app = "job"
                         THEN /\ pc' = "group"
                              /\ CreateTasks(Batches[batch_num + 2][1],
                                             BatchContext(app, new_stack))
                         ELSE /\ pc' = "raster"
                              /\ task' = [k \in Kinds |-> NoTask]
                              /\ UNCHANGED <<aborting, batch_log>>

(***************************************************************************)
(* Cancellation by the user.                                               *)
(***************************************************************************)
InFlight == {k \in Kinds : task[k].st = "attempting"}

\* OcrWorkbenchApi.cancel_job on a job that is running
cancel_job ==
  /\ app = "job"
  /\ pc = "group"
  /\ user_cancel = <<>>
  /\ user_cancel' = <<[batch |-> batch_num, in_flight |-> InFlight = Kinds]>>
  /\ run_cancel' = IF is_processing /\ processing_task # None
                   THEN TRUE ELSE run_cancel
  /\ UNCHANGED <<cfg_vars, fn_vars, sleeping, report_vars, file_vars, stack_vars, call_vars, pc, batch_num, context, header_stack, task,
                 aborting, processing_task, current_task, errors, complete_count,
                 batch_log, call_started, call_done, text_headers, batch_texts>>

\* OCRApp._stop_processing while the Stop button is enabled
OCRApp_stop_processing ==
  /\ LoopRuns
  /\ app = "gui"
  /\ pc \in {"raster", "group"}
  /\ user_cancel = <<>>
  /\ user_cancel' = <<[batch |-> batch_num, in_flight |-> InFlight = Kinds]>>
  /\ run_cancel' = IF current_task # None THEN TRUE ELSE run_cancel
  /\ UNCHANGED <<cfg_vars, fn_vars, sleeping, report_vars, file_vars, stack_vars, call_vars, pc, batch_num, context, header_stack, task,
                 aborting, processing_task, current_task, errors, complete_count,
                 batch_log, call_started, call_done, text_headers, batch_texts>>

Next ==
  \/ start_processing
  \/ OCRApp_start_processing
  \/ RasterDone
  \/ RasterCancelled
  \/ \E k \in Kinds : TaskStart(k)
  \/ TaskDelta
  \/ \E k \in Kinds : TaskResponse(k)
  \/ SleepReturns
  \/ \E k \in Kinds : TaskCancelled(k)
  \/ \E k \in Kinds : TaskGroupOnTaskDone(k)
  \/ TaskGroupCancelled
  \/ Join
  \/ cancel_job
  \/ OCRApp_stop_processing

Spec == Init /\ [][Next]_vars

(***************************************************************************)
(* update_header_stack alone: called repeatedly, each call on the stack    *)
(* the previous call returned, starting from the empty stack.              *)
(***************************************************************************)
StackInit ==
  /\ app = "job"
  /\ num_pages = 0
  /\ batch_size = 1
  /\ RunInit
  /\ StackIdle
  /\ CallIdle
  /\ FnIdle

\* new_stack = update_header_stack(old_stack, new_headers)
UpdateHeaderStack ==
  /\ st_pc = "idle"
  /\ \E hs \in HeaderSeqs :
       /\ st_old' = st_new
       /\ st_hdrs' = hs
       /\ st_new' = CallUpdateHeaderStack(st_new, hs).returned
       /\ st_arg' = CallUpdateHeaderStack(st_new, hs).old_stack
  /\ st_pc' = "called"
  /\ UNCHANGED <<cfg_vars, fn_vars, file_vars, run_vars, hist_vars, call_vars>>

\* the caller keeps the returned stack for its next call
KeepHeaderStack ==
  /\ st_pc = "called"
  /\ st_pc' = "idle"
  /\ st_old' = <<>>
  /\ st_hdrs' = <<>>
  /\ st_arg' = <<>>
  /\ UNCHANGED <<st_new, cfg_vars, fn_vars, file_vars, run_vars, hist_vars, call_vars>>

StackNext == UpdateHeaderStack \/ KeepHeaderStack

SpecStack == StackInit /\ [][StackNext]_vars

(***************************************************************************)
(* _batch_iterator alone, on any start page, end page and batch size.      *)
(***************************************************************************)
IterInit ==
  /\ app = "job"
  /\ num_pages = 0
  /\ batch_size = 1
  /\ RunInit
  /\ StackIdle
  /\ CallIdle
  /\ bi_pc = "idle"
  /\ bi_args \in (1..MaxStartPage) \X (0..MaxEndPage) \X (1..MaxSpan)
  /\ bi_out = <<>>
  /\ ImagesIdle
  /\ HeadersIdle
  /\ TokensIdle
  /\ PagesIdle
  /\ AloneIdle

\* list(_batch_iterator(start_page, end_page, batch_size))
CallBatchIterator ==
  /\ bi_pc = "idle"
  /\ bi_pc' = "called"
  /\ bi_out' = batch_iterator(bi_args[1], bi_args[2], bi_args[3])
  /\ UNCHANGED <<bi_args, image_vars, head_vars, token_vars, page_vars, alone_vars, cfg_vars, file_vars, run_vars, hist_vars, stack_vars, call_vars>>

IterNext == CallBatchIterator

SpecIter == IterInit /\ [][IterNext]_vars

(***************************************************************************)
(* extract_headers alone, on texts joined from lines "#" * level + " " +   *)
(* text.                                                                   *)
(***************************************************************************)
\* the texts after the "# " of a line: a word, words, nothing, a blank, and a
\* text that starts with "#"
LineTexts == {<<"A">>, <<"A", " ", "B">>, <<>>, <<" ">>, <<"#", "A">>}

\* "#" * level + " " + text
HashLine(level, text) == Repeat(<<"#">>, level) \o <<" ">> \o text

\* the lines of a list of <<level, text>>
HashLines(in) == [i \in 1..Len(in) |-> HashLine(in[i][1], in[i][2])]

HeadersInit ==
  /\ app = "job"
  /\ num_pages = 0
  /\ batch_size = 1
  /\ RunInit
  /\ StackIdle
  /\ CallIdle
  /\ IterIdle
  /\ ImagesIdle
  /\ TokensIdle
  /\ PagesIdle
  /\ AloneIdle
  /\ eh_pc = "idle"
  /\ eh_in \in SeqsUpTo((1..MaxHashes) \X LineTexts, MaxLines)
  /\ eh_out = <<>>

\* headers = extract_headers("\n".join(lines))
CallExtractHeaders ==
  /\ eh_pc = "idle"
  /\ eh_pc' = "called"
  /\ eh_out' = extract_headers(JoinWith(<<"\n">>, HashLines(eh_in)))
  /\ UNCHANGED <<eh_in, iter_vars, image_vars, token_vars, page_vars, alone_vars, cfg_vars, file_vars, run_vars,
                 hist_vars, stack_vars, call_vars>>

SpecHeaders == HeadersInit /\ [][CallExtractHeaders]_vars

(***************************************************************************)
(* build_image_content alone, on the page images of a batch.               *)
(***************************************************************************)
TokensInit ==
  /\ app = "job"
  /\ num_pages = 0
  /\ batch_size = 1
  /\ RunInit
  /\ StackIdle
  /\ CallIdle
  /\ IterIdle
  /\ ImagesIdle
  /\ HeadersIdle
  /\ PagesIdle
  /\ AloneIdle
  /\ tk_pc = "idle"
  /\ tk_images \in SeqsUpTo(PageDimensions, MaxBatchSize)
  /\ tk_out = 0

\* image_content, input_tokens = build_image_content(images, downscale=True),
\* and build_image_content(images), whose downscale is True by default
CallBuildImageContent ==
  /\ tk_pc = "idle"
  /\ tk_pc' = "called"
  /\ tk_out' = build_image_content(tk_images, TRUE)
  /\ UNCHANGED <<tk_images, iter_vars, image_vars, head_vars, page_vars, alone_vars, cfg_vars, file_vars,
                 run_vars, hist_vars, stack_vars, call_vars>>

SpecTokens == TokensInit /\ [][CallBuildImageContent]_vars

(***************************************************************************)
(* The loop over the proposed elements of one image response alone, on a    *)
(* batch of pages 1 and 2.                                                  *)
(***************************************************************************)
ImagesInit ==
  /\ app \in {"job", "gui"}
  /\ num_pages = 0
  /\ batch_size = 1
  /\ RunInit
  /\ StackIdle
  /\ CallIdle
  /\ IterIdle
  /\ HeadersIdle
  /\ TokensIdle
  /\ PagesIdle
  /\ AloneIdle
  /\ im_pages = {1, 2}
  /\ im = NoElements

\* the loop takes the next proposed element of the response; an element that
\* is skipped or fails goes to callbacks.on_error
ImagesElement ==
  /\ im.st = "running"
  /\ im.count < MaxElements
  /\ \E metadata \in Elements :
       LET loop == ProcessElement(app, im, metadata, im_pages)
       IN  /\ im' = loop
           /\ job_state' = IF loop.rejected > im.rejected
                            THEN OnError(app, job_state, <<"element", loop.last[1].verdict>>)
                            ELSE job_state
  /\ UNCHANGED <<im_pages, iter_vars, head_vars, token_vars, page_vars, alone_vars, cfg_vars, file_vars, loop_vars, hist_vars,
                 stack_vars, call_vars>>

\* the response has no more elements: return input_tokens, 0, extracted_images
ImagesReturn ==
  /\ im.st = "running"
  /\ im' = [im EXCEPT !.st = "success"]
  /\ UNCHANGED <<im_pages, iter_vars, head_vars, token_vars, page_vars, alone_vars, cfg_vars, file_vars, run_vars, hist_vars,
                 stack_vars, call_vars>>

ImagesNext == ImagesElement \/ ImagesReturn

SpecImages == ImagesInit /\ [][ImagesNext]_vars

(***************************************************************************)
(* One model call alone (_process_batch_text or _process_batch_images),    *)
(* against an endpoint that answers each attempt in any way.               *)
(***************************************************************************)
CallInit ==
  /\ app = "job"
  /\ num_pages = 0
  /\ batch_size = 1
  /\ RunInit
  /\ StackIdle
  /\ call_kind \in Kinds
  /\ \E b \in 0..(MaxPages - 1) : call = [NoTask EXCEPT !.st = "created", !.batch = b]
  /\ call_errors = {}
  /\ FnIdle

\* first step of the call: the first attempt's request
CallStart ==
  /\ call.st = "created"
  /\ call' = [call EXCEPT !.st = "attempting", !.attempt = 0]
  /\ UNCHANGED <<call_kind, call_errors, cfg_vars, fn_vars, file_vars, run_vars, hist_vars, stack_vars>>

\* an attempt of the call ends
CallResponse ==
  /\ call.st = "attempting"
  /\ \E o \in CallOutcomes(call_kind) :
       LET r == AttemptResult(call_kind, call, o)
       IN  /\ CallCanEndWith(call_kind, call, o)
           /\ call' = r[1]
           /\ call_errors' = call_errors \cup r[2]
  /\ UNCHANGED <<call_kind, cfg_vars, fn_vars, file_vars, run_vars, hist_vars, stack_vars>>

\* the text call receives a delta
CallDelta ==
  /\ call_kind = "text"
  /\ call.st = "attempting"
  /\ \E delta \in NextDeltas(call.response_text) :
       /\ call' = OnDelta(call, delta)
       /\ output_file' = Flush(WriteDelta(output_file, delta))
  /\ file_log' = Append(file_log, call.batch)
  /\ UNCHANGED <<call_kind, call_errors, cfg_vars, fn_vars, run_vars, hist_vars,
                 stack_vars>>

CallNext == CallStart \/ CallDelta \/ CallResponse

SpecCall == CallInit /\ [][CallNext]_vars

\* every request gets its answer, every stream its next event, every sleep
\* its end
SpecCallFair == SpecCall /\ WF_vars(CallNext)

(***************************************************************************)
(* Properties.                                                             *)
(***************************************************************************)
StrictlyIncreasing(stack) ==
  \A i \in 1..(Len(stack) - 1) : stack[i][1] < stack[i + 1][1]

\* the entries of a stack whose level is below `level`
EntriesBelow(stack, level) == SelectSeq(stack, LAMBDA e : e[1] < level)

Top(stack) == stack[Len(stack)]

\* C9: from the empty stack, after any sequence of update_header_stack calls
\* with headers of positive levels, the levels of the stack are strictly
\* increasing from its first entry to its last.
C9_StackStrictlyIncreasing ==
  /\ StrictlyIncreasing(st_new)
  /\ StrictlyIncreasing(st_old)

\* a call with two headers has returned a stack holding every level
C9_Witness ==
  /\ st_pc = "called"
  /\ Len(st_hdrs) = 2
  /\ Len(st_old) = 2
  /\ Len(st_new) = 3

\* C10: for a stack s of strictly increasing levels and one header h,
\* update_header_stack(s, <<h>>) is the entries of s below h's level, which
\* are a prefix of s, followed by h: a push when h is deeper than the top, a
\* replacement of the top when equal, pops down to the first entry below h
\* and a push when shallower; the result is never empty.
C10_SingleHeaderUpdate ==
  (st_pc = "called" /\ Len(st_hdrs) = 1) =>
    LET h == st_hdrs[1]
        below == EntriesBelow(st_old, h[1])
    IN  /\ st_new = Append(below, h)
        /\ below = SubSeq(st_old, 1, Len(below))
        /\ Len(st_new) >= 1
        /\ st_old = <<>> => st_new = <<h>>
        /\ (st_old # <<>> /\ h[1] > Top(st_old)[1]) => st_new = Append(st_old, h)
        /\ (st_old # <<>> /\ h[1] = Top(st_old)[1]) =>
             st_new = [st_old EXCEPT ![Len(st_old)] = h]
        /\ (st_old # <<>> /\ h[1] < Top(st_old)[1]) =>
             /\ Len(st_new) <= Len(st_old)
             /\ \A i \in 1..(Len(st_new) - 1) : st_new[i] = st_old[i]

\* a header of level 2 arrives on a stack of levels 1, 2, 3: two entries are
\* popped, the first stays
C10_Witness ==
  /\ st_pc = "called"
  /\ Len(st_hdrs) = 1
  /\ st_hdrs[1][1] = 2
  /\ Len(st_old) = 3
  /\ Len(st_new) = 2
  /\ st_new[2] # st_old[2]

\* the attempt results of a call that are retryable status errors
Retryable(o) == o.type = "status" /\ o.code >= 400

\* attempts the call has made: the requests it has sent
Attempts(t) == IF t.st = "created" THEN 0 ELSE t.attempt + 1

\* C3: when the endpoint answers the first k attempts of a call (k < 3) with
\* a status >= 400 and the next one with success, the call has made exactly
\* k + 1 attempts, has waited 2**0, ..., 2**(k-1) seconds between them in that
\* order (1 s then 2 s for 500, 500, 200) and ends in Success.
C3_RetryThenSuccess ==
  LET n == Len(call.responses)
  IN  (/\ n >= 1
       /\ n - 1 < MAX_RETRY_ATTEMPTS
       /\ call.responses[n].type = "ok"
       /\ \A i \in 1..(n - 1) : Retryable(call.responses[i]))
      => /\ call.st = "success"
         /\ Attempts(call) = n
         /\ Len(call.waits) = n - 1
         /\ \A i \in 1..(n - 1) : call.waits[i] = EXPONENTIAL_BACKOFF_BASE ^ (i - 1)
         /\ n = 3 => call.waits = <<1, 2>>

\* the endpoint has answered 500, 500 and then success
C3_Witness ==
  /\ Len(call.responses) = 3
  /\ call.responses[1] = [type |-> "status", code |-> 500]
  /\ call.responses[2] = [type |-> "status", code |-> 500]
  /\ call.responses[3].type = "ok"
  /\ call.st = "success"

\* C4: when every attempt of a call fails with a retryable status, the call
\* makes exactly MAX_RETRY_ATTEMPTS attempts, waits after none but the last
\* one, and ends in Failed with a max-retries-exceeded error that names the
\* batch (batch_num + 1).
C4_RetriesExhausted ==
  LET n == Len(call.responses)
  IN  (\A i \in 1..n : Retryable(call.responses[i]))
      => /\ n <= MAX_RETRY_ATTEMPTS
         /\ Attempts(call) <= MAX_RETRY_ATTEMPTS
         /\ (n < MAX_RETRY_ATTEMPTS /\ call.st # "created") =>
              /\ call.st = "attempting"
              /\ Attempts(call) = n + 1
              /\ Len(call.waits) = n
         /\ n = MAX_RETRY_ATTEMPTS =>
              /\ call.st = "failed"
              /\ Attempts(call) = MAX_RETRY_ATTEMPTS
              /\ Len(call.waits) = MAX_RETRY_ATTEMPTS - 1
              /\ call.error = <<"Max retries exceeded for batch", call.batch + 1>>

\* the endpoint has answered 503 to every attempt of a call of the second batch
C4_Witness ==
  /\ Len(call.responses) = 3
  /\ \A i \in 1..3 : call.responses[i] = [type |-> "status", code |-> 503]
  /\ call.st = "failed"
  /\ call.batch = 1

\* C5: a call whose first attempt is answered with status 403 makes exactly
\* one attempt and raises at once, without a backoff wait and without a retry.
C5_ForbiddenFailsAtOnce ==
  (/\ Len(call.responses) >= 1
   /\ call.responses[1] = [type |-> "status", code |-> 403])
  => /\ call.st = "failed"
     /\ Attempts(call) = 1
     /\ call.waits = <<>>

\* C6: an attempt that ends with a status error below 400, or with any
\* exception that is no status error, ends the call in Failed: no attempt and
\* no backoff wait follows it (one attempt in all when it is the first), and
\* the error raised names the batch (batch_num + 1).
C6_NonRetryableFailsAtOnce ==
  \A i \in 1..Len(call.responses) :
    LET o == call.responses[i]
    IN  (o.type = "exc" \/ (o.type = "status" /\ o.code < 400))
        => /\ i = Len(call.responses)
           /\ call.st = "failed"
           /\ Attempts(call) = i
           /\ Len(call.waits) = i - 1
           /\ Len(call.error) = 2
           /\ call.error[1] = (IF o.type = "exc" THEN "Unexpected error in batch"
                               ELSE "API error in batch")
           /\ call.error[2] = call.batch + 1

\* the first attempt of a call of the third batch was answered with status 399
C6_Witness ==
  /\ call.responses = <<[type |-> "status", code |-> 399]>>
  /\ call.st = "failed"
  /\ call.waits = <<>>
  /\ call.batch = 2

\* both calls of batch b have returned their results
BothResolved(b) == \A k \in Kinds : <<k, b, "success">> \in call_done

\* C1: the batches of a run are processed in increasing batch_num order, each
\* at most once, and no call of batch i+1 (text or image) starts before both
\* the text call and the image call of batch i have resolved.
C1_BatchesInOrder ==
  /\ \A i \in 1..Len(batch_log) : batch_log[i] = i - 1
  /\ \A c \in call_started :
       /\ \E i \in 1..Len(batch_log) : batch_log[i] = c[2]
       /\ c[2] > 0 => BothResolved(c[2] - 1)

\* both calls of the third batch have started
C1_Witness ==
  /\ <<"text", 2>> \in call_started
  /\ <<"image", 2>> \in call_started
  /\ batch_log = <<0, 1, 2>>

\* update_header_stack folded, in batch order, over the headers of the batches
RECURSIVE FoldHeaders(_)
FoldHeaders(hs) ==
  IF hs = <<>> THEN <<>>
  ELSE update_header_stack(FoldHeaders(SubSeq(hs, 1, Len(hs) - 1)), hs[Len(hs)])

\* while batch k is in the task group, the stack is the fold over the text
\* calls of batches 0..k-1 and both calls of DocumentJob.run hold its context
ContextFollowsHeaders ==
  pc = "group" =>
    /\ Len(text_headers) = batch_num
    /\ header_stack = FoldHeaders(text_headers)
    /\ app = "job" =>
         \A k \in Kinds : /\ task[k].batch = batch_num
                          /\ task[k].context = build_context(FoldHeaders(text_headers))

\* the stack is written only when both calls of the batch have returned
StackWrittenAfterCalls ==
  header_stack' # header_stack =>
    /\ pc = "group"
    /\ \A k \in Kinds : task[k].st = "success"
    /\ header_stack' = update_header_stack(header_stack, task["text"].headers)

\* C2: the context passed to both calls of batch k in DocumentJob.run is
\* build_context of the HeaderStack obtained by folding update_header_stack, in
\* batch order, over the headers the text calls of batches 0..k-1 returned
\* (the empty stack for k = 0); the HeaderStack is written only after the
\* calls of batch k have resolved, never while they are in flight.
C2_ContextFromPriorBatches ==
  /\ []ContextFollowsHeaders
  /\ [][StackWrittenAfterCalls]_vars

\* the calls of the third batch of a job are in flight with a context built
\* from the headers of the first two batches
C2_Witness ==
  /\ app = "job"
  /\ pc = "group"
  /\ batch_num = 2
  /\ Len(header_stack) = 2
  /\ text_headers[1] # <<>>
  /\ text_headers[2] # <<>>
  /\ \A k \in Kinds : task[k].st = "attempting"

\* C7: when the text call or the image call of batch i ends in Failed the run
\* aborts: the error leaves the run, the HeaderStack is not advanced with the
\* headers of batch i, no call of a batch j > i is ever started and no
\* completion event is emitted.
C7_FailedCallAbortsRun ==
  \A d \in call_done :
    d[3] = "failed" =>
      /\ pc \in {"group", "failed"}
      /\ pc = "failed" => <<"Processing failed">> \in errors
      /\ batch_num = d[2]
      /\ Len(text_headers) = d[2]
      /\ header_stack = FoldHeaders(text_headers)
      /\ \A c \in call_started : c[2] <= d[2]
      /\ complete_count = 0

\* the image call of the second batch has failed and the run has ended with
\* the error
C7_Witness ==
  /\ <<"image", 1, "failed">> \in call_done
  /\ <<"text", 1, "success">> \in call_done
  /\ pc = "failed"

\* C8: once the user has cancelled the run while both calls of batch i were
\* in flight, no call of a batch j > i is started and the run does not go on
\* to complete.
C8_CancelStopsRun ==
  (user_cancel # <<>> /\ user_cancel[1].in_flight) =>
    /\ \A c \in call_started : c[2] <= user_cancel[1].batch
    /\ pc # "completed"

\* C11: _batch_iterator(startPage, endPage, batchSize) with startPage >= 1
\* and batchSize >= 1 yields nothing when endPage < startPage; otherwise its
\* spans are numbered 0, 1, 2, ... in order, are contiguous and disjoint, cover
\* exactly [startPage, endPage], and each has batchSize pages but the last,
\* which has ((endPage - startPage + 1) - 1) mod batchSize + 1 pages;
\* 1, 25, 10 gives (0,1,10), (1,11,20), (2,21,25).
C11_BatchSpansCoverRange ==
  bi_pc = "called" =>
    LET startPage == bi_args[1]
        endPage == bi_args[2]
        batchSize == bi_args[3]
        n == Len(bi_out)
        pages(i) == bi_out[i][3] - bi_out[i][2] + 1
    IN  /\ endPage < startPage => bi_out = <<>>
        /\ startPage <= endPage =>
             /\ n >= 1
             /\ bi_out[1][2] = startPage
             /\ bi_out[n][3] = endPage
             /\ \A i \in 1..n : bi_out[i][1] = i - 1
             /\ \A i \in 1..(n - 1) : /\ bi_out[i + 1][2] = bi_out[i][3] + 1
                                      /\ pages(i) = batchSize
             /\ pages(n) = (((endPage - startPage + 1) - 1) % batchSize) + 1
        /\ bi_args = <<1, 25, 10>> =>
             bi_out = <<<<0, 1, 10>>, <<1, 11, 20>>, <<2, 21, 25>>>>

\* pages 2..8 in batches of 3: two full spans and a last span of one page
C11_Witness ==
  /\ bi_pc = "called"
  /\ bi_args = <<2, 8, 3>>
  /\ bi_out = <<<<0, 2, 4>>, <<1, 5, 7>>, <<2, 8, 8>>>>

IsPrefix(a, b) == Len(a) <= Len(b) /\ SubSeq(b, 1, Len(a)) = a

IsSuffix(a, b) == Len(a) <= Len(b) /\ SubSeq(b, Len(b) - Len(a) + 1, Len(b)) = a

\* the writes to the file are in batch order, and they are all the file holds
WritesInBatchOrder ==
  /\ \A i \in 1..Len(file_log) : \A j \in 1..Len(file_log) :
       i < j => file_log[i] <= file_log[j]
  /\ \A i \in 1..Len(file_log) :
       /\ <<"text", file_log[i]>> \in call_started
       /\ file_log[i] > 0 => <<"text", file_log[i] - 1, "success">> \in call_done
  /\ file_log = <<>> => output_file.content = <<>>

\* a step of a run leaves what the file holds at the front of what it holds next
FileOnlyGrows ==
  pc # "idle" => IsPrefix(output_file.content, output_file'.content)

\* C12: the output file is appended to in batch order: for batches i < j every
\* fragment of batch i is written and flushed before any fragment of batch j
\* is written, and during a run the file only grows by appending.
C12_FileAppendedInBatchOrder ==
  /\ []WritesInBatchOrder
  /\ [][FileOnlyGrows]_vars

\* the file holds the text of the first batch followed by that of the second
C12_Witness ==
  /\ file_log = <<0, 1, 1>>
  /\ output_file.content = TextB \o TextFenced
  /\ batch_texts = <<TextB>>

\* each batch's cleaned text, one after the other
RECURSIVE CleanedTexts(_)
CleanedTexts(texts) ==
  IF texts = <<>> THEN <<>>
  ELSE clean_markdown_output(Head(texts)) \o CleanedTexts(Tail(texts))

\* C13: after a run that completes, the output file holds the concatenation,
\* in batch order, of each batch's cleaned text (the response without its
\* leading and trailing code-fence markers), with nothing in between.
C13_FileIsCleanedText ==
  pc = "completed" => output_file.content = CleanedTexts(batch_texts)

\* C14: during a text call every received fragment is written to the output
\* file and flushed before the next one is handled: nothing written is left
\* unflushed, and the flushed file ends with all the text the attempt has
\* received so far.
C14_EveryDeltaFlushed ==
  /\ output_file.buffer = <<>>
  /\ \A k \in Kinds :
       (pc = "group" /\ k = "text" /\ task[k].st = "attempting") =>
         IsSuffix(task[k].response_text, output_file.content)
  /\ (call_kind = "text" /\ call.st = "attempting") =>
       IsSuffix(call.response_text, output_file.content)

\* the text call of the second batch has received the first of two fragments
C14_Witness ==
  /\ pc = "group"
  /\ task["text"].st = "attempting"
  /\ task["text"].batch = 1
  /\ task["text"].response_text = StreamFenced[1]
  /\ output_file.content = TextB \o StreamFenced[1]

\* the element the loop handled last
LastElement == im.last[1]

\* 0 <= x1 < x2 <= 1000 and 0 <= y1 < y2 <= 1000
OrderedBbox(bbox) ==
  /\ 0 <= bbox[1] /\ bbox[1] < bbox[3] /\ bbox[3] <= 1000
  /\ 0 <= bbox[2] /\ bbox[2] < bbox[4] /\ bbox[4] <= 1000

\* the area of the bbox is within [0.05, 0.85] of the 1000 x 1000 page
AreaInRange(bbox) ==
  /\ element_area(bbox) * 100 >= 5 * 1000000
  /\ element_area(bbox) * 100 <= 85 * 1000000

\* C15: a proposed element whose bbox area (x2-x1)*(y2-y1), as a fraction of
\* the 1000 x 1000 page, is below 0.05 or above 0.85 is rejected, and no image
\* file is written for it.
C15_OutOfRangeAreaRejected ==
  (im.last # <<>> /\ ~AreaInRange(LastElement.metadata.bbox)) =>
    /\ LastElement.verdict \in {"too small", "too large"}
    /\ LastElement.written = <<>>
    /\ im.images_extracted = Len(im.extracted_images)
    /\ \A i \in 1..Len(im.extracted_images) :
         AreaInRange(im.extracted_images[i].bbox)

\* an element covering the whole page was proposed after one that was saved
C15_Witness ==
  /\ im.count = 2
  /\ LastElement.metadata.bbox = <<0, 0, 1000, 900>>
  /\ LastElement.metadata.page_number = 2
  /\ LastElement.verdict = "too large"
  /\ Len(im.extracted_images) = 1

\* C16: for a proposed element with 0 <= x1 < x2 <= 1000, 0 <= y1 < y2 <= 1000,
\* area within [0.05, 0.85] and the page number of a PageImage of the batch,
\* DocumentJob writes exactly one file, named {page_number}_fig{fig_number}.png.
C16_ValidElementSavedOnce ==
  (/\ app = "job"
   /\ im.last # <<>>
   /\ OrderedBbox(LastElement.metadata.bbox)
   /\ AreaInRange(LastElement.metadata.bbox)
   /\ LastElement.metadata.page_number \in im_pages)
  => LET m == LastElement.metadata
         name == Str(m.page_number) \o <<"_", "f", "i", "g">> \o Str(m.fig_number)
                 \o <<".", "p", "n", "g">>
     IN  /\ LastElement.verdict = "saved"
         /\ LastElement.written = <<name>>
         /\ name \in im.dir
         /\ im.extracted_images[Len(im.extracted_images)] = m

\* figure 2 of page 2, of area exactly 0.05 of the page, was saved as 2_fig2.png
C16_Witness ==
  /\ app = "job"
  /\ im.last # <<>>
  /\ LastElement.metadata = [bbox |-> <<0, 0, 1000, 50>>, page_number |-> 2,
                             fig_number |-> 2]
  /\ LastElement.written = <<<<"2", "_", "f", "i", "g", "2", ".", "p", "n", "g">>>>

\* C17: a proposed element that is rejected or fails (area out of range,
\* invalid bbox ordering, no PageImage with its page number) does not stop the
\* loop: valid elements of the same response are still extracted and saved,
\* and the image call ends in Success, not in a failure of the batch.
C17_ElementFailuresIsolated ==
  /\ im.st \in {"running", "success"}
  /\ im.count = im.rejected + Len(im.extracted_images)
  /\ (/\ app = "job"
      /\ im.rejected > 0
      /\ im.last # <<>>
      /\ OrderedBbox(LastElement.metadata.bbox)
      /\ AreaInRange(LastElement.metadata.bbox)
      /\ LastElement.metadata.page_number \in im_pages)
     => /\ LastElement.verdict = "saved"
        /\ LastElement.metadata \in {im.extracted_images[i] :
                                       i \in 1..Len(im.extracted_images)}

\* a valid element was saved after an element of a page that is not in the
\* batch, and the call returned
C17_Witness ==
  /\ app = "job"
  /\ im.st = "success"
  /\ im.count = 2
  /\ im.rejected = 1
  /\ <<"Image extraction failed", "StopIteration">> \in im.errors
  /\ LastElement.verdict = "saved"

\* both calls of every batch of the document have ended in success
AllBatchesSucceeded ==
  /\ \A b \in 0..(Len(Batches) - 1) :
       \A k \in Kinds : <<k, b, "success">> \in call_done
  /\ \A d \in call_done : d[3] = "success"

\* C18: on_complete is emitted at most once in a run, only after both calls of
\* every batch 0..N-1 have ended in success, and never in a run that failed or
\* was cancelled; a run that failed has emitted an error event instead.
C18_CompleteOnceAfterAllBatches ==
  /\ complete_count <= 1
  /\ complete_count = 1 => (pc = "completed" /\ AllBatchesSucceeded)
  /\ pc \in {"failed", "cancelled"} => complete_count = 0
  /\ pc = "failed" => <<"Processing failed">> \in errors
  /\ pc = "cancelled" => <<"Processing cancelled">> \in errors
  /\ (app = "gui" /\ user_cancel # <<>>) => complete_count = 0

\* a run of three batches has completed
C18_Witness ==
  /\ pc = "completed"
  /\ complete_count = 1
  /\ Len(Batches) = 3
  /\ <<"image", 2, "success">> \in call_done

\* the totals the job reports: ProcessingJobState.total_input_tokens,
\* total_output_tokens and images_extracted
ReportedTotals ==
  <<job_state.total_input_tokens, job_state.total_output_tokens,
    job_state.images_extracted>>

\* the totals the run itself keeps
RunTotals == <<totals.input_tokens, totals.output_tokens, totals.images>>

\* the input tokens of the batches 0..n-1
RECURSIVE SumInputTokens(_)
SumInputTokens(n) == IF n = 0 THEN 0 ELSE SumInputTokens(n - 1) + InputTokens(n - 1)

\* no total decreases in the step, and a total changes only in a step taken
\* when both calls of the batch are done
TotalsStep(before, after) ==
  /\ \A i \in 1..3 : after[i] >= before[i]
  /\ after # before => (pc = "group" /\ BothResolved(batch_num))

\* every batch merged so far has added its input tokens once
ContributedOnce(input_tokens) == input_tokens = SumInputTokens(Len(text_headers))

\* the run's own totals are kept as C19 says
RunTotalsAfterEachBatch ==
  [](pc # "idle" => ContributedOnce(totals.input_tokens))
  /\ [][TotalsStep(RunTotals, RunTotals')]_vars

\* C19: the run totals (input tokens, output tokens, images extracted) never
\* decrease during a run, change only after both calls of a batch have
\* resolved, never while calls of the batch are in flight, and each batch
\* contributes to them exactly once.
C19_TotalsChangeAfterBatch ==
  [](pc \in {"raster", "group", "completed", "failed", "cancelled"} =>
       /\ ContributedOnce(totals.input_tokens)
       /\ app = "job" => ContributedOnce(job_state.total_input_tokens))
  /\ [][/\ TotalsStep(RunTotals, RunTotals')
        /\ TotalsStep(ReportedTotals, ReportedTotals')]_vars

\* what a caller reads of a job that has ended
ReportedOutcome == <<job_state.status, job_state.error>>

\* the outcomes reported for a run that ended with an error of a call
FailureOutcomes ==
  {<<st, msg>> : st \in {"pending", "processing", "error"},
                 msg \in {<<"Processing failed">>, <<"unhandled errors in a TaskGroup">>}}

C21_EqualLevelReplacesTop ==
  /\ (/\ st_pc = "called"
      /\ Len(st_hdrs) = 1
      /\ st_old # <<>>
      /\ st_hdrs[1][1] = Top(st_old)[1])
     => /\ Len(st_new) = Len(st_old)
        /\ Top(st_new) = st_hdrs[1]
        /\ \A i \in 1..(Len(st_old) - 1) : st_new[i] = st_old[i]
  /\ (/\ st_pc = "called"
      /\ Len(st_hdrs) = 2
      /\ st_hdrs[1] = st_hdrs[2])
     => /\ Len(st_new) = Len(EntriesBelow(st_old, st_hdrs[1][1])) + 1
        /\ Top(st_new) = st_hdrs[1]
        /\ \A i \in 1..(Len(st_new) - 1) :
             st_new[i] = st_old[i] /\ st_new[i] # st_hdrs[1]

\* a header of level 2 with another text arrived on a stack of levels 1, 2
C21_Witness ==
  /\ st_pc = "called"
  /\ Len(st_hdrs) = 1
  /\ Len(st_old) = 2
  /\ st_hdrs[1][1] = 2
  /\ Top(st_old)[1] = 2
  /\ st_hdrs[1] # Top(st_old)
  /\ Len(st_new) = 2

\* C22: update_header_stack(s, []) returns a stack equal to s, and for any
\* new_headers the list s that the caller passed is unchanged after the call:
\* the result is a new list.
C22_EmptyIsIdentityAndNoMutation ==
  st_pc = "called" =>
    /\ st_arg = st_old
    /\ st_hdrs = <<>> => st_new = st_old

\* a call with one header has returned a stack of one entry while the list of
\* three entries that was passed still holds them
C22_Witness ==
  /\ st_pc = "called"
  /\ Len(st_hdrs) = 1
  /\ Len(st_arg) = 3
  /\ Len(st_new) = 1

\* the <<level, line>> of every line, in order
AllLinesAsHeaders(in) == [i \in 1..Len(in) |-> <<in[i][1], HashLines(in)[i]>>]

\* a line that extract_headers takes for a header: at most MAX_HEADER_LEVEL
\* hashes and a text that is not blank
TakenForHeader(level, text) == level <= 6 /\ Strip(text) # <<>>

\* C23 as amended: for a text built by joining N lines "#" * level + " " +
\* text, extract_headers returns, in order, the <<level, line>> of the lines
\* with 1 to 6 hashes and a text that is not blank, each line verbatim, and
\* nothing for the other lines; so exactly N tuples when every line is such.
C23_ValidHeadersRoundTrip ==
  eh_pc = "called" =>
    /\ eh_out = SelectSeq(AllLinesAsHeaders(eh_in),
                          LAMBDA h : \E i \in 1..Len(eh_in) :
                                       /\ h = <<eh_in[i][1], HashLines(eh_in)[i]>>
                                       /\ TakenForHeader(eh_in[i][1], eh_in[i][2]))
    /\ (\A i \in 1..Len(eh_in) : TakenForHeader(eh_in[i][1], eh_in[i][2]))
         => eh_out = AllLinesAsHeaders(eh_in)

\* two lines, of 6 hashes and of 1 hash before a text starting with "#", came
\* back as two headers
C23_Witness ==
  /\ eh_pc = "called"
  /\ eh_in = <<<<6, <<"A", " ", "B">>>>, <<1, <<"#", "A">>>>>>
  /\ Len(eh_out) = 2
  /\ eh_out[1][1] = 6

\* C23: for a text built by joining N lines "#" * level + " " + text, of any
\* level >= 1 and any text, extract_headers returns exactly N tuples, in order,
\* each with the number of leading "#" as its level and the line verbatim.
C23_HeadersRoundTrip ==
  eh_pc = "called" => eh_out = AllLinesAsHeaders(eh_in)

\* the sum of a sequence of numbers
RECURSIVE SumSeq(_)
SumSeq(seq) == IF seq = <<>> THEN 0 ELSE Head(seq) + SumSeq(Tail(seq))

\* C24 as amended: the input-token count that build_image_content returns for
\* a batch is the sum, over the batch's pages, of floor(w / 28) * floor(h / 28)
\* where w and h are the page's pixel dimensions downscaled by 100 / 130 and
\* truncated, the dimensions of the image that is sent; it is 0 for a page of
\* width 0.
C24_TokensOfDownscaledPages ==
  tk_pc = "called" =>
    /\ tk_out = SumSeq([i \in 1..Len(tk_images) |->
                          (((tk_images[i][1] * 100) \div 130) \div 28)
                          * (((tk_images[i][2] * 100) \div 130) \div 28)])
    /\ (\A i \in 1..Len(tk_images) : tk_images[i][1] = 0) => tk_out = 0

\* a page of 73 x 37 pixels, which holds 2 x 1 tiles of 28 pixels as it is
\* and also once downscaled to 56 x 28, and a page of 37 x 73
C24_Witness ==
  /\ tk_pc = "called"
  /\ tk_images = <<<<73, 37>>, <<37, 73>>>>
  /\ tk_out = 4

\* C24: the input-token count that build_image_content returns for a batch is
\* the sum, over the batch's pages, of floor(width / 28) * floor(height / 28)
\* of each PageImage's pixel dimensions (0 for a page of width 0).
C24_TokensOfPageDimensions ==
  tk_pc = "called" =>
    tk_out = SumSeq([i \in 1..Len(tk_images) |->
                       (tk_images[i][1] \div 28) * (tk_images[i][2] \div 28)])

\* C25: when an attempt of a text call has failed with a retryable error after
\* fragments were streamed and a later attempt of the call has succeeded, the
\* output file holds the text of the batch once: the fragments written during
\* the failed attempt are not in the file ahead of the text of the successful
\* attempt.
C25_RetriedTextWrittenOnce ==
  (/\ call_kind = "text"
   /\ call.st = "success"
   /\ Len(call.responses) > 1)
  => output_file.content = call.response_text

\* C26: while one call of a batch waits out a retry backoff, the other call
\* of the batch can still make progress and a cancellation can still be
\* delivered: the wait is a suspension point that does not block the sibling.
C26_BackoffDoesNotBlockSibling ==
  \A k \in Kinds :
    (/\ pc = "group"
     /\ sleeping = k
     /\ task[Sibling(k)].st = "attempting"
     /\ ~task[Sibling(k)].must_cancel)
    => /\ ENABLED TaskResponse(Sibling(k))
       /\ (app = "gui" /\ user_cancel = <<>>) => ENABLED OCRApp_stop_processing

\* the terminal states of a call
Terminal(t) == t.st \in {"success", "failed"}

\* at most MAX_RETRY_ATTEMPTS attempts, and never the statement after the loop
BoundedAttempts ==
  /\ Attempts(call) <= 3
  /\ Len(call.responses) <= 3
  /\ call.error # <<"Unexpected code path">>
  /\ Terminal(call) => Len(call.responses) = Attempts(call)

\* C27: provided every attempt at the endpoint terminates, a model call
\* reaches Success or Failed after at most MAX_RETRY_ATTEMPTS attempts, makes
\* no attempt once it is there, and never falls through its retry loop to the
\* 'Unexpected code path' error.
C27_CallTerminates ==
  /\ []BoundedAttempts
  /\ [][Terminal(call) => call' = call]_vars
  /\ <>Terminal(call)

\* a call has failed at its third attempt
C27_Witness ==
  /\ call.st = "failed"
  /\ Len(call.responses) = 3
  /\ call.attempt = 2
  /\ call.error = <<"Max retries exceeded for batch", call.batch + 1>>

\* C28: while DocumentJob.run is executing for a job, is_processing() is True
\* for the job, so that a second call of run on it returns at once and at most
\* one run of a job is active.
C28_RunMarksProcessing ==
  (app = "job" /\ pc = "group") => is_processing


(***************************************************************************)
(* C29: the reported status of a job becomes "error" only when the run     *)
(* aborts with a fatal failure: an iteration of the element loop, which    *)
(* rejects or fails one visual element and goes on, leaves the status as   *)
(* it was.                                                                 *)
(***************************************************************************)
C29_ElementLeavesStatus ==
  [][im'.count > im.count => job_state'.status = job_state.status]_vars


(***************************************************************************)
(* The page images of a run alone: DocumentJob.run converts the PDF once   *)
(* and slices self.page_images for every batch; OCRApp converts the pages  *)
(* of every batch.                                                         *)
(***************************************************************************)
PagesInit ==
  /\ app \in {"job", "gui"}
  /\ num_pages = 0
  /\ batch_size = 1
  /\ RunInit
  /\ StackIdle
  /\ CallIdle
  /\ IterIdle
  /\ ImagesIdle
  /\ HeadersIdle
  /\ TokensIdle
  /\ AloneIdle
  /\ pg_pc = "idle"
  /\ pg_args \in (1..MaxStartPage) \X (1..MaxPdfPages) \X (1..MaxBatchSize)
  /\ pg_images = <<>>
  /\ pg_todo = <<>>
  /\ pg_handed = <<>>

\* self.page_images = pages_to_images(pdf_path, start page, None, images_dir)
\* and the call of _batch_iterator(start page, len(self.page_images), size);
\* OCRApp calls _batch_iterator(start_page, total_pages, batch_size)
PagesStart ==
  /\ pg_pc = "idle"
  /\ LET converted == pages_to_images(pg_args[2], pg_args[1], <<>>)
     IN  IF app = "gui"
         THEN /\ pg_images' = <<>>
              /\ pg_todo' = batch_iterator(pg_args[1], pg_args[2], pg_args[3])
              /\ pg_pc' = "batches"
         ELSE IF converted.raised # "ok" \/ converted.images = <<>>
         THEN /\ pg_images' = <<>>
              /\ pg_todo' = <<>>
              /\ pg_pc' = "failed"
         ELSE /\ pg_images' = converted.images
              /\ pg_todo' = batch_iterator(pg_args[1], Len(converted.images),
                                           pg_args[3])
              /\ pg_pc' = "batches"
  /\ UNCHANGED <<pg_args, pg_handed, iter_vars, image_vars, head_vars, token_vars,
                 alone_vars, cfg_vars, file_vars, run_vars, hist_vars, stack_vars, call_vars>>

\* one iteration of the batch loop up to the TaskGroup:
\* batch_images = self.page_images[page_start - 1 : page_end], or
\* images = pages_to_images_with_ui(pdf_path, page_start, page_end, ...)
PagesBatch ==
  /\ pg_pc = "batches"
  /\ pg_todo # <<>>
  /\ LET batch == Head(pg_todo)
         converted == pages_to_images_with_ui(pg_args[2], batch[2], batch[3])
     IN  IF app = "gui" /\ converted.raised # "ok"
         THEN /\ pg_pc' = "failed"
              /\ pg_todo' = <<>>
              /\ pg_handed' = <<>>
         ELSE /\ pg_pc' = "batches"
              /\ pg_todo' = Tail(pg_todo)
              /\ pg_handed' =
                   <<[batch |-> batch,
                      images |-> IF app = "gui" THEN converted.images
                                 ELSE Slice(pg_images, batch[2] - 1, batch[3])]>>
  /\ UNCHANGED <<pg_args, pg_images, iter_vars, image_vars, head_vars, token_vars,
                 alone_vars, cfg_vars, file_vars, run_vars, hist_vars, stack_vars, call_vars>>

\* the iterator is exhausted
PagesDone ==
  /\ pg_pc = "batches"
  /\ pg_todo = <<>>
  /\ pg_pc' = "done"
  /\ UNCHANGED <<pg_args, pg_images, pg_todo, pg_handed, iter_vars, image_vars,
                 head_vars, token_vars, alone_vars, cfg_vars, file_vars, run_vars, hist_vars,
                 stack_vars, call_vars>>

PagesNext == PagesStart \/ PagesBatch \/ PagesDone

SpecPages == PagesInit /\ [][PagesNext]_vars

\* the page numbers of the PageImages handed to the calls of a batch
HandedPageNums(handed) ==
  [i \in 1..Len(handed.images) |-> handed.images[i].page_num]

(***************************************************************************)
(* C30: for every batch <<batch_num, page_start, page_end>> of a run, on   *)
(* any start page >= 1, the PageImages handed to the two calls are those   *)
(* with page_num in page_start..page_end, in increasing page order, each   *)
(* showing the page it is numbered as.                                     *)
(***************************************************************************)
C30_BatchImagesAreItsPages ==
  \A i \in 1..Len(pg_handed) :
    /\ HandedPageNums(pg_handed[i])
         = PageRange(pg_handed[i].batch[2], pg_handed[i].batch[3])
    /\ \A j \in 1..Len(pg_handed[i].images) :
         pg_handed[i].images[j].page = pg_handed[i].images[j].page_num


(***************************************************************************)
(* C31: every image file persisted by the image call of a batch carries a  *)
(* page number of the batch's pages; an element whose page_number is not   *)
(* one of them is rejected and writes nothing, even though the page exists *)
(* elsewhere in the document.                                              *)
(***************************************************************************)
C31_SavedFilesOfBatchPages ==
  /\ \A i \in 1..Len(im.extracted_images) :
       im.extracted_images[i].page_number \in im_pages
  /\ im.dir = {FileName(im.extracted_images[i]) : i \in 1..Len(im.extracted_images)}
  /\ \A i \in 1..Len(im.last) :
       im.last[i].metadata.page_number \notin im_pages
         => /\ im.last[i].verdict # "saved"
            /\ im.last[i].written = <<>>
            /\ im.rejected > 0

\* a batch of pages 1 and 2 saved an element of page 2, and then rejected an
\* element of page 3 whose bbox and area are valid
C31_Witness ==
  /\ app = "job"
  /\ im.dir # {}
  /\ im.last # <<>>
  /\ im.last[1].metadata.page_number = 3
  /\ im.last[1].verdict = "StopIteration"
  /\ im.images_extracted = 1


(***************************************************************************)
(* The breadcrumb alone: the stack and the context of the batch loop over  *)
(* the texts of the batches, in two runs whose texts have the same heading *)
(* lines in the same order.                                                *)
(***************************************************************************)
\* heading lines of 1 to MaxHashes hashes, and lines of other text
CrumbHeadingLines == {Repeat(<<"#">>, l) \o <<" ", "A">> : l \in 1..MaxHashes}
CrumbPlainLines == {<<"x">>, <<"y">>}

\* the texts of a batch: a line, or a heading line with other text before or
\* after it
CrumbTexts ==
  CrumbPlainLines \cup CrumbHeadingLines
  \cup {<<"x", "\n">> \o h : h \in CrumbHeadingLines}
  \cup {h \o <<"\n", "y">> : h \in CrumbHeadingLines}

\* headers that keep every line of the text that is not empty
BatchHeaders_EveryLine(response_text) ==
  LET lines == SelectSeq(SplitLines(clean_markdown_output(response_text)),
                         LAMBDA line : line # <<>>)
  IN  [i \in 1..Len(lines) |-> <<1, lines[i]>>]

\* cleaned_text = clean_markdown_output(response_text);
\* headers = extract_headers(cleaned_text)
BatchHeaders(response_text) ==
  extract_headers(clean_markdown_output(response_text))

NoCrumbs ==
  [batches |-> 0, header_stack |-> <<>>, context |-> build_context(<<>>),
   other_stack |-> <<>>, other_context |-> build_context(<<>>),
   differ |-> FALSE]

ContextInit ==
  /\ app = "job"
  /\ num_pages = 0
  /\ batch_size = 1
  /\ RunInit
  /\ StackIdle
  /\ CallIdle
  /\ IterIdle
  /\ ImagesIdle
  /\ HeadersIdle
  /\ TokensIdle
  /\ PagesIdle
  /\ crumbs = NoCrumbs
  /\ md = <<>>
  /\ crop = <<>>
  /\ conv = <<>>

\* one batch of each run: header_stack = update_header_stack(header_stack,
\* new_headers), and context = build_context(header_stack) of the next batch
ContextBatch ==
  /\ crumbs # <<>>
  /\ crumbs.batches < MaxCrumbBatches
  /\ \E text \in CrumbTexts, other \in CrumbTexts :
       /\ extract_headers(clean_markdown_output(text))
            = extract_headers(clean_markdown_output(other))
       /\ LET new_stack == update_header_stack(crumbs.header_stack, BatchHeaders(text))
              other_new == update_header_stack(crumbs.other_stack, BatchHeaders(other))
          IN  crumbs' = [batches |-> crumbs.batches + 1,
                         header_stack |-> new_stack,
                         context |-> build_context(new_stack),
                         other_stack |-> other_new,
                         other_context |-> build_context(other_new),
                         differ |-> text # other]
  /\ UNCHANGED <<md, crop, conv, iter_vars, image_vars, head_vars, token_vars,
                 page_vars, cfg_vars, file_vars, run_vars, hist_vars, stack_vars,
                 call_vars>>

SpecContext == ContextInit /\ [][ContextBatch]_vars

C33_SplitAcrossBatches ==
  st_pc = "called" =>
    \A b \in HeaderSeqs :
      CallUpdateHeaderStack(st_new, b).returned
        = CallUpdateHeaderStack(st_old, st_hdrs \o b).returned

\* a call with two headers popped a stack of three entries down to one, and a
\* next call with two headers can grow it again
C33_Witness ==
  /\ st_pc = "called"
  /\ Len(st_hdrs) = 2
  /\ Len(st_old) = 3
  /\ Len(st_new) = 1
  /\ \E b \in HeaderSeqs :
       /\ Len(b) = 2
       /\ Len(CallUpdateHeaderStack(st_new, b).returned) = 3


(***************************************************************************)
(* The end of a text call alone: clean_markdown_output on the accumulated  *)
(* response text, and extract_headers on the cleaned text.                 *)
(***************************************************************************)
\* lines of a response: the fence markers, heading lines (one of them
\* indented, one of MaxHashes hashes), lines of hashes only, other text and
\* the empty line
TextLines ==
  {FenceMarkdown, Fence,
   <<"#", " ", "A">>, <<" ", "#", "#", " ", "B">>, <<"#", "#">>,
   <<"#", " ", "#">>, Repeat(<<"#">>, MaxHashes) \o <<" ", "A">>,
   <<"x">>, <<>>}

MarkdownInit ==
  /\ app = "job"
  /\ num_pages = 0
  /\ batch_size = 1
  /\ RunInit
  /\ StackIdle
  /\ CallIdle
  /\ IterIdle
  /\ ImagesIdle
  /\ HeadersIdle
  /\ TokensIdle
  /\ PagesIdle
  /\ crumbs = <<>>
  /\ \E lines \in SeqsUpTo(TextLines, MaxTextLines) \ {<<>>} :
       md = [pc |-> "idle", lines |-> lines, cleaned |-> <<>>, headers |-> <<>>]
  /\ crop = <<>>
  /\ conv = <<>>

\* cleaned_text = clean_markdown_output(response_text);
\* headers = extract_headers(cleaned_text)
MarkdownCall ==
  /\ md # <<>>
  /\ md.pc = "idle"
  /\ md' = [md EXCEPT !.pc = "called",
                      !.cleaned = clean_markdown_output(JoinWith(<<"\n">>, md.lines)),
                      !.headers = extract_headers(
                                    clean_markdown_output(JoinWith(<<"\n">>, md.lines)))]
  /\ UNCHANGED <<crumbs, crop, conv, iter_vars, image_vars, head_vars, token_vars,
                 page_vars, cfg_vars, file_vars, run_vars, hist_vars, stack_vars,
                 call_vars>>

SpecMarkdown == MarkdownInit /\ [][MarkdownCall]_vars

\* the lines without the first one when it is only a fence marker of markers
WithoutLeadingFence(lines, markers) ==
  IF lines # <<>> /\ Strip(lines[1]) \in markers THEN Tail(lines) ELSE lines

\* the lines without the last one when it is only the closing fence
WithoutTrailingFence(lines) ==
  IF lines # <<>> /\ Strip(lines[Len(lines)]) = Fence
  THEN SubSeq(lines, 1, Len(lines) - 1) ELSE lines

(***************************************************************************)
(* C34: clean_markdown_output removes the first line when it is only a     *)
(* code-fence marker (the fence with "markdown" or the bare fence) and the *)
(* last line when it is only the bare fence, and leaves every other line   *)
(* and their order unchanged; the headers are extracted from this cleaned  *)
(* text.                                                                   *)
(***************************************************************************)
C34_FencesRemoved ==
  (md # <<>> /\ md.pc = "called") =>
    /\ md.cleaned =
         JoinWith(<<"\n">>,
                  WithoutTrailingFence(
                    WithoutLeadingFence(md.lines, {FenceMarkdown, Fence})))
    /\ md.headers = extract_headers(md.cleaned)


\* the number of "#" a line starts with, after its leading whitespace
LeadingHashes(line) ==
  Len(LStrip(line, Whitespace)) - Len(LStrip(LStrip(line, Whitespace), {"#"}))

\* what follows the leading "#" of a line
AfterHashes(line) == LStrip(LStrip(line, Whitespace), {"#"})

\* the tuples <<level, line>> of the lines that satisfy Heading, in line order
HeadingTuples(lines, Heading(_)) ==
  LET kept == SelectSeq(lines, Heading)
  IN  [i \in 1..Len(kept) |-> <<LeadingHashes(kept[i]), kept[i]>>]

\* one to six "#" followed by something that is not blank
SixHashesAndText(line) ==
  /\ LeadingHashes(line) \in 1..6
  /\ Strip(AfterHashes(line)) # <<>>

\* one or more "#" followed by some character that is neither "#" nor blank
HashesAndOtherText(line) ==
  /\ LeadingHashes(line) >= 1
  /\ \E i \in 1..Len(AfterHashes(line)) :
       AfterHashes(line)[i] \notin Whitespace \cup {"#"}

(***************************************************************************)
(* C35 as amended: extract_headers emits a line as a heading iff, after    *)
(* its leading whitespace, it starts with one to six "#" followed by       *)
(* content that is not blank (further "#" included); a line of "#" and     *)
(* whitespace with nothing after its leading "#" is ignored, as is a line  *)
(* of seven or more "#"; each tuple carries the number of leading "#" and  *)
(* the unmodified source line, leading whitespace and hashes included, and *)
(* the tuples are in source-line order.                                    *)
(***************************************************************************)
C35_HeadingsOfSixLevels ==
  (md # <<>> /\ md.pc = "called") =>
    md.headers = HeadingTuples(SplitLines(md.cleaned), SixHashesAndText)

\* an indented heading, a line of hashes only and a heading: two tuples, the
\* first with its leading whitespace
C35_Witness ==
  /\ md # <<>>
  /\ md.pc = "called"
  /\ md.lines = <<<<" ", "#", "#", " ", "B">>, <<"#", "#">>, <<"#", " ", "A">>>>
  /\ md.headers = <<<<2, <<" ", "#", "#", " ", "B">>>>, <<1, <<"#", " ", "A">>>>>>

(***************************************************************************)
(* C35: extract_headers emits a line as a heading iff, after its leading   *)
(* whitespace, it starts with one or more "#" followed by some content     *)
(* that is neither "#" nor blank; a line made only of "#" and whitespace   *)
(* is ignored; each tuple carries the unmodified source line, and the      *)
(* tuples are in source-line order.                                        *)
(***************************************************************************)
C35_HeadingsOfAnyLevel ==
  (md # <<>> /\ md.pc = "called") =>
    md.headers = HeadingTuples(SplitLines(md.cleaned), HashesAndOtherText)


(***************************************************************************)
(* extract_image alone, on a page of any pixel size: the validation of the *)
(* bbox and the crop box of extract_image_from_page.                       *)
(***************************************************************************)
\* normalized coordinates and pixel sizes
CropCoords == {0, 1, 333, 500, 999, 1000}
CropWidths == {1, 7, 999, 1275}
CropHeights == {1, 1650}

\* a crop box that scales x by the height and y by the width
extract_image_from_page_Swapped(dimensions, bbox) ==
  <<(bbox[1] * dimensions[2]) \div 1000, (bbox[2] * dimensions[1]) \div 1000,
    (bbox[3] * dimensions[2]) \div 1000, (bbox[4] * dimensions[1]) \div 1000>>

\* x1 = int(x1_norm * width / 1000), ..., y2 = int(y2_norm * height / 1000):
\* the box handed to img.crop
extract_image_from_page(dimensions, bbox) ==
  <<(bbox[1] * dimensions[1]) \div 1000, (bbox[2] * dimensions[2]) \div 1000,
    (bbox[3] * dimensions[1]) \div 1000, (bbox[4] * dimensions[2]) \div 1000>>

CropInit ==
  /\ app = "job"
  /\ num_pages = 0
  /\ batch_size = 1
  /\ RunInit
  /\ StackIdle
  /\ CallIdle
  /\ IterIdle
  /\ ImagesIdle
  /\ HeadersIdle
  /\ TokensIdle
  /\ PagesIdle
  /\ crumbs = <<>>
  /\ md = <<>>
  /\ \E dimensions \in CropWidths \X CropHeights,
        bbox \in CropCoords \X CropCoords \X CropCoords \X CropCoords :
       crop = [pc |-> "idle", dimensions |-> dimensions, bbox |-> bbox,
               box |-> <<>>]
  /\ conv = <<>>

\* extract_image(metadata, images) on the page of the element: ValueError for
\* an invalid bbox, else the crop
CropCall ==
  /\ crop # <<>>
  /\ crop.pc = "idle"
  /\ LET metadata == [bbox |-> crop.bbox, page_number |-> 1, fig_number |-> 1]
     IN  IF extract_image(metadata, {1}) = "ok"
         THEN crop' = [crop EXCEPT !.pc = "cropped",
                                   !.box = extract_image_from_page(crop.dimensions,
                                                                   crop.bbox)]
         ELSE crop' = [crop EXCEPT !.pc = "raised"]
  /\ UNCHANGED <<crumbs, md, conv, iter_vars, image_vars, head_vars, token_vars,
                 page_vars, cfg_vars, file_vars, run_vars, hist_vars, stack_vars,
                 call_vars>>

SpecCrop == CropInit /\ [][CropCall]_vars

\* n = floor(a / 1000)
IsFloorOfThousandth(n, a) == 1000 * n <= a /\ a < 1000 * (n + 1)

\* |a| < b
AbsLess(a, b) == a < b /\ 0 - a < b

(***************************************************************************)
(* C36: for a page of W x H pixels and a validated bbox <<x1, y1, x2, y2>> *)
(* in 0..1000, the crop box is <<floor(x1*W/1000), floor(y1*H/1000),       *)
(* floor(x2*W/1000), floor(y2*H/1000)>>; it lies within the page           *)
(* (0 <= left <= right <= W and 0 <= top <= bottom <= H), and its width    *)
(* and height differ from (x2-x1)*W/1000 and (y2-y1)*H/1000 by less than   *)
(* one pixel.                                                              *)
(***************************************************************************)
C36_CropBoxWithinPage ==
  (crop # <<>> /\ crop.pc = "cropped") =>
    LET W == crop.dimensions[1]
        H == crop.dimensions[2]
        left == crop.box[1]
        top == crop.box[2]
        right == crop.box[3]
        bottom == crop.box[4]
    IN  /\ IsFloorOfThousandth(left, crop.bbox[1] * W)
        /\ IsFloorOfThousandth(top, crop.bbox[2] * H)
        /\ IsFloorOfThousandth(right, crop.bbox[3] * W)
        /\ IsFloorOfThousandth(bottom, crop.bbox[4] * H)
        /\ 0 <= left /\ left <= right /\ right <= W
        /\ 0 <= top /\ top <= bottom /\ bottom <= H
        /\ AbsLess(1000 * (right - left) - (crop.bbox[3] - crop.bbox[1]) * W, 1000)
        /\ AbsLess(1000 * (bottom - top) - (crop.bbox[4] - crop.bbox[2]) * H, 1000)

\* a page of 1275 x 1650 pixels and the bbox <<333, 1, 999, 500>>: the box is
\* <<424, 1, 1273, 825>>, every corner truncated
C36_Witness ==
  /\ crop # <<>>
  /\ crop.pc = "cropped"
  /\ crop.dimensions = <<1275, 1650>>
  /\ crop.bbox = <<333, 1, 999, 500>>
  /\ crop.box = <<424, 1, 1273, 825>>


(***************************************************************************)
(* pages_to_images alone (pages_to_images_with_ui in OCRApp), on any PDF,  *)
(* start page and end page.                                                *)
(***************************************************************************)
\* end_page: None, or a page number
EndPages == {<<>>} \cup {<<n>> : n \in 1..MaxPdfPages}

ConvertInit ==
  /\ app \in {"job", "gui"}
  /\ num_pages = 0
  /\ batch_size = 1
  /\ RunInit
  /\ StackIdle
  /\ CallIdle
  /\ IterIdle
  /\ ImagesIdle
  /\ HeadersIdle
  /\ TokensIdle
  /\ PagesIdle
  /\ crumbs = <<>>
  /\ md = <<>>
  /\ crop = <<>>
  /\ \E pdf_pages \in 1..MaxPdfPages, start_page \in 1..MaxStartPage,
        end_page \in EndPages :
       /\ app = "gui" => end_page # <<>>
       /\ conv = [pc |-> "idle", pdf_pages |-> pdf_pages,
                  start_page |-> start_page, end_page |-> end_page,
                  out |-> <<>>]

\* result = pages_to_images(pdf_path, start_page, end_page, output_dir), or
\* pages_to_images_with_ui(pdf_path, start_page, end_page, output_dir)
ConvertCall ==
  /\ conv # <<>>
  /\ conv.pc = "idle"
  /\ conv' = [conv EXCEPT
                !.pc = "called",
                !.out = IF app = "gui"
                        THEN pages_to_images_with_ui(conv.pdf_pages, conv.start_page,
                                                     conv.end_page[1])
                        ELSE pages_to_images(conv.pdf_pages, conv.start_page,
                                             conv.end_page)]
  /\ UNCHANGED <<crumbs, md, crop, iter_vars, image_vars, head_vars, token_vars,
                 page_vars, cfg_vars, file_vars, run_vars, hist_vars, stack_vars,
                 call_vars>>

SpecConvert == ConvertInit /\ [][ConvertCall]_vars

\* the last page of the requested range
LastRequested(c) == IF c.end_page = <<>> THEN c.pdf_pages ELSE c.end_page[1]

(***************************************************************************)
(* C37: pages_to_images(pdf, start_page, end_page), for a range of pages   *)
(* of the PDF, returns exactly one PageImage for each page of the range,   *)
(* with page_num start_page, start_page + 1, ..., end_page in order, the   *)
(* end page included, and through the last page of the document when       *)
(* end_page is None; each image is the one of its page.                    *)
(***************************************************************************)
C37_OneImagePerRequestedPage ==
  (/\ conv # <<>>
   /\ conv.pc = "called"
   /\ conv.start_page <= LastRequested(conv)
   /\ LastRequested(conv) <= conv.pdf_pages)
  => /\ conv.out.raised = "ok"
     /\ conv.out.images =
          [i \in 1..(LastRequested(conv) - conv.start_page + 1) |->
             [page_num |-> conv.start_page + i - 1,
              page |-> conv.start_page + i - 1]]


(***************************************************************************)
(* C38: in a run the stack never holds more than 6 entries, so the context *)
(* never has more than 6 entry lines after its header line, however many   *)
(* batches and headings have been processed.                               *)
(***************************************************************************)
C38_StackAtMostSixEntries ==
  crumbs # <<>> =>
    /\ Len(crumbs.header_stack) <= MAX_HEADER_LEVEL
    /\ Len(SplitLines(crumbs.context)) <= 1 + MAX_HEADER_LEVEL
    /\ \A i \in 1..Len(crumbs.header_stack) :
         crumbs.header_stack[i][1] \in 1..MAX_HEADER_LEVEL

\* six batches have filled the stack with the levels 1 to 6, and the seventh
\* batch has left it at six entries
C38_Witness ==
  /\ crumbs # <<>>
  /\ crumbs.batches = MaxCrumbBatches
  /\ Len(crumbs.header_stack) = MAX_HEADER_LEVEL
  /\ Len(SplitLines(crumbs.context)) = 1 + MAX_HEADER_LEVEL


\* "  " * (level - 1) + line
IndentedEntry(entry) == Repeat(<<" ", " ">>, entry[1] - 1) \o entry[2]

(***************************************************************************)
(* C39: build_context(stack) is the fixed breadcrumb header line followed  *)
(* by one line per stack entry, in stack order from root to deepest, each  *)
(* the entry's raw heading line prefixed by (level - 1) units of two       *)
(* spaces; for the empty stack it is the header line only.                 *)
(***************************************************************************)
C39_BreadcrumbLayout ==
  crumbs # <<>> =>
    LET lines == SplitLines(crumbs.context)
        stack == crumbs.header_stack
    IN  /\ lines[1] \o <<"\n">> = DOCUMENT_BREADCRUMB_HEADER
        /\ stack = <<>> => crumbs.context = DOCUMENT_BREADCRUMB_HEADER
        /\ stack # <<>> =>
             /\ Len(lines) = 1 + Len(stack)
             /\ \A i \in 1..Len(stack) : lines[i + 1] = IndentedEntry(stack[i])

\* the context of a stack of the levels 1, 3 and 6: no indent, four spaces and
\* ten spaces before the heading lines
C39_Witness ==
  /\ crumbs # <<>>
  /\ Len(crumbs.header_stack) = 3
  /\ crumbs.header_stack[2][1] = 3
  /\ crumbs.header_stack[3][1] = 6
  /\ SplitLines(crumbs.context)[2] = <<"#", " ", "A">>
  /\ SplitLines(crumbs.context)[3] = <<" ", " ", " ", " ", "#", "#", "#", " ", "A">>
  /\ Len(SplitLines(crumbs.context)[4]) = 10 + 8

====
